---- MODULE Spec2Model ----
(***************************************************************************)
(* Request routing and resilience layer of the distribution build:        *)
(* getModelClient with VibeathonRetryManager.executeWithRetry, the silent  *)
(* proxy test, createFallbackClient, markProxyFailed, toggleFallbackMode   *)
(* and RequestLogger.logFailedRequest, as written in                       *)
(* thoughts/shared/plans/2025-09-23-vibeathon-proxy-routing.md, with       *)
(* SyncService.syncFailedRequests of the same plan, fetchVibeathonApi of   *)
(* ipc/utils/distribution_utils.ts and the backend's                       *)
(* FailedRequestController::store.                                         *)
(*                                                                         *)
(* Time is counted in minutes; retry delays are kept in milliseconds.      *)
(***************************************************************************)
EXTENDS Integers, Sequences, FiniteSets, TLC

\* ---------------------------------------------------------------- bounds
MaxCalls == 3        \* getModelClient calls started in one behaviour
MaxTime  == 5        \* last value of the clock (minutes)
MaxPosts == 3        \* requests posted to the backend in one behaviour
MaxRuns  == 2        \* validateKey runs awaiting their IPC call at one time
MaxToggles == 3      \* chat mode toggles that change the mode per behaviour
MaxMessages == 2     \* messages of one request given to validateOpenAIRequest

\* ------------------------------------------------------ program constants
MAX_RETRIES  == 10
BASE_DELAY   == 1000
FIVE_MINUTES == 5
CACHE_DURATION == 5  \* CACHE_DURATION_MS, in minutes

\* the asynchronous tasks that call getModelClient: two chat streams
Tasks == {"chat1", "chat2"}
None  == "none"

\* model.provider of the requested model: one provider createFallbackClient
\* has a case for, one that reaches its default branch
Providers == {"openai", "xai"}

\* what one proxy operation (createVibeathonProxyClient + testConnection)
\* can do: succeed, fail with a network/timeout/5xx error, fail with 401
ProxyOutcomes == {"ok", "net", "auth"}

\* proxySettings.fallbackApiKeys: undefined, or the set of providers with a key
FallbackKeyChoices ==
  { [defined |-> FALSE, keys |-> {}],
    [defined |-> TRUE,  keys |-> {}],
    [defined |-> TRUE,  keys |-> {"openai"}] }

\* lastFailure when the field is absent
NoTime == -1

\* the message contents a chat can hold
Contents == {"hello", "secret"}

\* what one fetch of /sync/failed-request can do: reject before the request
\* is delivered, reject after the backend has handled it, resolve to the
\* backend's response, resolve to a 500 the backend sent without storing
PushOutcomes == {"unreachable", "lostReply", "answered", "serverError"}

\* request_id values of the requests posted to the backend
RequestIds == {1, 2}

\* the values vibeathonApiKey?.value can take when it is defined
ApiKeys == {"k1", "k2"}

\* what the awaited fetchFallbackApiKeys can do: reject, or resolve to the
\* keys of the providers the backend has one for
FetchOutcomes ==
  { [ok |-> FALSE, keys |-> {}],
    [ok |-> TRUE,  keys |-> {}],
    [ok |-> TRUE,  keys |-> {"openai"}] }

\* what the GET /user/ai-keys of fetchFallbackApiKeys can meet: whether fetch
\* resolves, response.ok, whether response.json() resolves, data.expiration
Expirations == {"2026-12-31", "", "undefined"}

KeysResponses ==
  [delivered : BOOLEAN, ok : BOOLEAN, parsable : BOOLEAN, expiration : Expirations]

\* the response field of a handler call that sent no request
NoResponse ==
  [delivered |-> FALSE, ok |-> FALSE, parsable |-> FALSE, expiration |-> "undefined"]

\* the keys the validateVibeathonKey handler is called with: empty, or a key
EmptyKey == ""

HandlerKeys == {EmptyKey} \cup ApiKeys

\* what IpcClient.validateVibeathonKey can do for the renderer: resolve to
\* true, resolve to false, reject
IpcOutcomes == {"true", "false", "throws"}

\* a JavaScript value of an optional boolean field
JsFlags == {"true", "false", "undefined"}

\* the entries hideNavigation can hold
NavItems == {"hub", "library"}

\* hideNavigation: undefined, or an array of entries
NavChoices ==
  {[defined |-> FALSE, items |-> {}]}
    \cup {[defined |-> TRUE, items |-> n] : n \in SUBSET NavItems}

\* DistributionFeatureKey, and a key that is none of its values
FeatureKeys ==
  {"pro-banner", "pro-buttons", "hub-nav", "library-nav", "import-app",
   "more-ideas", "model-providers", "model-picker", "provider-setup", "other-key"}

\* settings.distributionMode when the field is absent
NoDistributionMode ==
  [defined |-> FALSE, hideCommercialFeatures |-> "undefined",
   hideProButtons |-> "undefined", hideExternalIntegrations |-> "undefined",
   hideNavigation |-> [defined |-> FALSE, items |-> {}]]

\* every value settings.distributionMode can have, its fields being optional
DistributionModes ==
  {NoDistributionMode}
    \cup [defined : {TRUE}, hideCommercialFeatures : JsFlags, hideProButtons : JsFlags,
          hideExternalIntegrations : JsFlags, hideNavigation : NavChoices]

\* the hide flags initializeDistributionSettings writes in a distribution build
InitialDistributionMode ==
  [defined |-> TRUE, hideCommercialFeatures |-> "true", hideProButtons |-> "true",
   hideExternalIntegrations |-> "true",
   hideNavigation |-> [defined |-> TRUE, items |-> {"hub", "library"}]]

\* the configurations the calls are run under when the gate is watched: no
\* distributionMode, the distribution defaults, one flag, one entry, no flag
GateConfigs ==
  { NoDistributionMode,
    InitialDistributionMode,
    [NoDistributionMode EXCEPT !.defined = TRUE, !.hideCommercialFeatures = "true"],
    [NoDistributionMode EXCEPT !.defined = TRUE, !.hideProButtons = "false",
                               !.hideNavigation = [defined |-> TRUE, items |-> {"hub"}]],
    [NoDistributionMode EXCEPT !.defined = TRUE] }

VARIABLES
  settings,        \* distributionMode.proxySettings in the settings file
  now,             \* Date.now(), minutes
  failedRequests,  \* the failed_requests table, in insertion order
  nCalls,          \* getModelClient calls started so far
  pc,              \* per task: where its getModelClient call stands
  model,           \* per task: model.provider of the call
  attempt,         \* per task: executeWithRetry's loop variable
  lastError,       \* per task: executeWithRetry's lastError
  failures,        \* per task: attempts of this call that have failed
  errorsSeen,      \* per task: the kinds of failure this call has met
  delays,          \* per task: the delays slept so far in this call (ms)
  proxyCalls,      \* per task: proxy operations started in this call
  result,          \* per task: what the call returned or threw
  logged,          \* per task: outcome of this call's logFailedRequest
  cancelled,       \* per task: the caller has cancelled the call
  prompt,          \* per task: the content of the chat's message
  syncPc,          \* where SyncService.syncFailedRequests stands
  syncQueue,       \* the rows of unsyncedRequests the loop has not handled yet
  response,        \* the Response the awaited fetchVibeathonApi resolved to
  backendRows,     \* the backend's failed_requests table, in insertion order
  posted,          \* the requests the backend has answered, with their status
  vibeathonApiKey, \* distributionMode.vibeathonApiKey in the settings file
  usedKey,         \* per task: vibeathonApiKey of the settings object the call was given
  distributionMode,      \* the hide flags of distributionMode in the settings file
  IS_DISTRIBUTION_BUILD, \* process.env.DYAD_DISTRIBUTION_BUILD === "true"
  rendered,        \* per feature key: what shouldHideFeature returned at the last render
  modeResult,      \* what isDistributionMode returned last
  fetchPc,         \* where fetchVibeathonFallbackKeys stands
  fetchSnapshot,   \* the settings fetchVibeathonFallbackKeys read before its await
  valPc,           \* where the settings:validateVibeathonKey handler stands
  valKey,          \* the key the handler was called with
  valResult,       \* what the handler returned last
  validationCache, \* telemetry.ts: validationCache
  isValid,         \* useVibeathonKeyValidation: the isValid state
  isValidating,    \* useVibeathonKeyValidation: the isValidating state
  route,           \* the route the router shows
  hookRuns,        \* the validateKey runs awaiting their IPC call, oldest first
  savePc,          \* where handleSave of the settings page stands
  saveKey,         \* the apiKey handleSave was started with
  selectedChatMode,  \* settings.selectedChatMode
  HIDE_BUILD_MODE,   \* process.env.DYAD_HIDE_BUILD_MODE === "true"
  modeEvents,        \* the chat:mode_toggle events given to captureEvent
  request,         \* the request given to validateOpenAIRequest
  validation       \* what validateOpenAIRequest returned, once it has: << >> or <<r>>

\* the state of the failure sync and of the backend
syncVars == <<prompt, syncPc, syncQueue, response, backendRows, posted>>

\* the results of the visibility gate, and the build flag it reads
gateVars == <<IS_DISTRIBUTION_BUILD, rendered, modeResult>>

\* the state of fetchVibeathonFallbackKeys
fetchVars == <<fetchPc, fetchSnapshot>>

\* the credential, the hide flags, the gate and the key fetch
distVars == <<vibeathonApiKey, usedKey, distributionMode, gateVars, fetchVars>>

\* the settings:validateVibeathonKey handler
valVars == <<valPc, valKey, valResult>>

\* the key validation hook and its cache
hookVars == <<validationCache, isValid, isValidating, route, hookRuns>>

\* handleSave of the settings page
saveVars == <<savePc, saveKey>>

\* the chat mode
modeVars == <<selectedChatMode, HIDE_BUILD_MODE, modeEvents>>

\* validateOpenAIRequest
reqVars == <<request, validation>>

\* the renderer's hooks and pages, and the request validation
uiVars == <<valVars, hookVars, saveVars, modeVars, reqVars>>

vars == <<settings, now, failedRequests, nCalls, pc, model, attempt,
          lastError, failures, errorsSeen, delays, proxyCalls, result, logged,
          cancelled, syncVars, distVars, uiVars>>

\* ------------------------------------------------------------- helpers
RECURSIVE Pow2(_)
Pow2(n) == IF n = 0 THEN 1 ELSE 2 * Pow2(n - 1)

Client(transport, keyed) == [kind |-> "client", name |-> transport, keyed |-> keyed]
Failure(name)            == [kind |-> "error",  name |-> name,      keyed |-> FALSE]
NoResult                 == [kind |-> "none",   name |-> None,      keyed |-> FALSE]

RetryDelay_Linear(a) == BASE_DELAY * a

RetryDelay_Capped(a) ==
  IF BASE_DELAY * Pow2(a - 1) > 30000 THEN 30000 ELSE BASE_DELAY * Pow2(a - 1)

\* executeWithRetry: const delay = BASE_DELAY * Math.pow(2, attempt - 1)
RetryDelay(a) == BASE_DELAY * Pow2(a - 1)

ProxyRoute_IgnoresFallback(s) == s.enabled

ProxyRoute_NeedsFallbackKeys(s) ==
  s.enabled /\ ~s.useFallback /\ s.fallbackApiKeys.keys # {}

\* the first if of getModelClient
ProxyRoute(s) == s.enabled /\ ~s.useFallback

FailedRecently_Elapsed(s, t) == s.lastFailure # NoTime /\ s.lastFailure <= t - FIVE_MINUTES

\* lastFailure && new Date(lastFailure) > fiveMinutesAgo
FailedRecently(s, t) == s.lastFailure # NoTime /\ s.lastFailure > t - FIVE_MINUTES

\* the second if of getModelClient
FallbackRoute(s) == s.useFallback /\ s.fallbackApiKeys.defined

\* createFallbackClient: a client for the provider's case, built with
\* fallbackKeys?.<provider>?.value whether or not it is defined; the default
\* branch throws
createFallbackClient(p, s) ==
  IF p = "openai"
  THEN Client("fallback-direct", p \in s.fallbackApiKeys.keys)
  ELSE Failure("FallbackNotSupported")

\* the onRetry callback of getModelClient: updateRetryCount(attempt)
updateRetryCount(s, a) == [s EXCEPT !.retryCount = a]

markProxyFailed_SetsFallback(s, t) ==
  [s EXCEPT !.lastFailure = t, !.retryCount = 0, !.useFallback = TRUE]

markProxyFailed_Increments(s, t) ==
  [s EXCEPT !.lastFailure = t, !.retryCount = @ + 1]

\* markProxyFailed: readSettings, then write lastFailure and retryCount
markProxyFailed(s, t) == [s EXCEPT !.lastFailure = t, !.retryCount = 0]

\* clearProxyFailure, called when the silent test succeeds
clearProxyFailure(s) ==
  [s EXCEPT !.lastFailure = NoTime, !.useFallback = FALSE, !.retryCount = 0]

\* toggleFallbackMode(useFallback)
toggleFallbackMode(s, b) == [s EXCEPT !.useFallback = b, !.retryCount = 0]

\* getCurrentMessageCount(): each chat holds one message
MessageCount == 1

\* RequestLogger.logFailedRequest's row: requestData as the catch block of
\* getModelClient builds it (provider, messageCount), the error of the
\* VibeathonProxyError, retryCount 0, synced false. The two timestamps of the
\* row are left out: nothing reads them.
FailedRequestRow(id, p, err) ==
  [id |-> id, provider |-> p, messageCount |-> MessageCount,
   error |-> err, retryCount |-> 0, synced |-> FALSE]

\* RequestLogger.getUnsyncedRequests: the rows with synced = false
getUnsyncedRequests(rows) == SelectSeq(rows, LAMBDA row : ~row.synced)

markRequestSynced_Deletes(rows, id) == SelectSeq(rows, LAMBDA row : row.id # id)

\* RequestLogger.markRequestSynced: set synced = true where id = requestId
markRequestSynced(rows, id) ==
  [i \in 1..Len(rows) |->
     IF rows[i].id = id THEN [rows[i] EXCEPT !.synced = TRUE] ELSE rows[i]]

\* the JSON body SyncService.syncFailedRequests posts for a row (the
\* VibeathonSyncRequest shape), originalTimestamp left out with the timestamps
SyncPayload(row) ==
  [requestId   |-> row.id,
   requestData |-> [provider |-> row.provider, messageCount |-> row.messageCount],
   error       |-> row.error]

\* a JSON body with the field names FailedRequestController::store validates
ApiRequest(id) ==
  [request_id   |-> id,
   request_data |-> [provider |-> "openai", messageCount |-> MessageCount],
   error        |-> "net"]

\* the bodies posted to /sync/failed-request: what SyncService sends for a
\* row, and what the controller's rules describe
PostedBodies ==
  {SyncPayload(FailedRequestRow(id, "openai", "net")) : id \in RequestIds}
    \cup {ApiRequest(id) : id \in RequestIds}

\* FailedRequestController::store: validate (required fields, request_id
\* unique in failed_requests), then FailedRequest::create and a 200; a failed
\* validation is answered with 422 and creates nothing
store(payload, rows) ==
  IF ~({"request_id", "request_data", "error"} \subseteq DOMAIN payload)
  THEN [status |-> "422", rows |-> rows]
  ELSE IF \E i \in 1..Len(rows) : rows[i].request_id = payload.request_id
  THEN [status |-> "422", rows |-> rows]
  ELSE [status |-> "200",
        rows   |-> Append(rows, [request_id    |-> payload.request_id,
                                 request_data  |-> payload.request_data,
                                 error_message |-> payload.error])]

\* ---------------------------------------------------------------- Init
\* JavaScript: a boolean as a value, truthiness, a || b
Js(b) == IF b THEN "true" ELSE "false"

Truthy(v) == v = "true"

JsOr(a, b) == IF Truthy(a) THEN a ELSE b

\* isDistributionMode(settings)
isDistributionMode_FlagOnly(build, dm) == Js(dm.hideCommercialFeatures = "true")

isDistributionMode(build, dm) == Js(build \/ dm.hideCommercialFeatures = "true")

\* shouldHideFeature(settings, featureKey), with the cases of the provider
\* keys; dm is settings.distributionMode without proxySettings, ps is
\* proxySettings, whose enabled reads false where the field is absent
shouldHideFeature_WhileHealthy(dm, ps, featureKey) ==
  IF ~dm.defined THEN "false"
  ELSE CASE featureKey = "pro-banner" ->
              JsOr(dm.hideCommercialFeatures, dm.hideProButtons)
         [] featureKey = "pro-buttons" -> dm.hideProButtons
         [] featureKey = "hub-nav" ->
              IF dm.hideNavigation.defined
              THEN Js("hub" \in dm.hideNavigation.items) ELSE "undefined"
         [] featureKey = "library-nav" ->
              IF dm.hideNavigation.defined
              THEN Js("library" \in dm.hideNavigation.items) ELSE "undefined"
         [] featureKey = "import-app" -> dm.hideExternalIntegrations
         [] featureKey = "more-ideas" -> dm.hideCommercialFeatures
         [] featureKey \in {"model-providers", "model-picker", "provider-setup"} ->
              JsOr(dm.hideCommercialFeatures, Js(ps.enabled /\ ~ps.useFallback))
         [] OTHER -> "false"

shouldHideFeature_ProBannerCommercialOnly(dm, ps, featureKey) ==
  IF ~dm.defined THEN "false"
  ELSE CASE featureKey = "pro-banner" -> dm.hideCommercialFeatures
         [] featureKey = "pro-buttons" -> dm.hideProButtons
         [] featureKey = "hub-nav" ->
              IF dm.hideNavigation.defined
              THEN Js("hub" \in dm.hideNavigation.items) ELSE "undefined"
         [] featureKey = "library-nav" ->
              IF dm.hideNavigation.defined
              THEN Js("library" \in dm.hideNavigation.items) ELSE "undefined"
         [] featureKey = "import-app" -> dm.hideExternalIntegrations
         [] featureKey = "more-ideas" -> dm.hideCommercialFeatures
         [] featureKey \in {"model-providers", "model-picker", "provider-setup"} ->
              JsOr(dm.hideCommercialFeatures, Js(ps.enabled))
         [] OTHER -> "false"

shouldHideFeature(dm, ps, featureKey) ==
  IF ~dm.defined THEN "false"
  ELSE CASE featureKey = "pro-banner" ->
              JsOr(dm.hideCommercialFeatures, dm.hideProButtons)
         [] featureKey = "pro-buttons" -> dm.hideProButtons
         [] featureKey = "hub-nav" ->
              IF dm.hideNavigation.defined
              THEN Js("hub" \in dm.hideNavigation.items) ELSE "undefined"
         [] featureKey = "library-nav" ->
              IF dm.hideNavigation.defined
              THEN Js("library" \in dm.hideNavigation.items) ELSE "undefined"
         [] featureKey = "import-app" -> dm.hideExternalIntegrations
         [] featureKey = "more-ideas" -> dm.hideCommercialFeatures
         [] featureKey \in {"model-providers", "model-picker", "provider-setup"} ->
              JsOr(dm.hideCommercialFeatures, Js(ps.enabled))
         [] OTHER -> "false"

\* the hide flags as the settings writers of the Vibeathon panel and of
\* fetchVibeathonFallbackKeys store them: `?? false` and `?? []` for absent ones
withFlagDefaults(dm) ==
  [defined |-> TRUE,
   hideCommercialFeatures |->
     IF dm.hideCommercialFeatures = "undefined" THEN "false" ELSE dm.hideCommercialFeatures,
   hideProButtons |->
     IF dm.hideProButtons = "undefined" THEN "false" ELSE dm.hideProButtons,
   hideExternalIntegrations |->
     IF dm.hideExternalIntegrations = "undefined" THEN "false"
     ELSE dm.hideExternalIntegrations,
   hideNavigation |->
     IF dm.hideNavigation.defined THEN dm.hideNavigation
     ELSE [defined |-> TRUE, items |-> {}]]

\* the renderer before any effect has run: the cache as telemetry.ts declares
\* it, the hook's useState values
NoCache == [apiKey |-> None, isValid |-> FALSE, timestamp |-> 0]

InitValidation ==
  /\ valPc = "idle"
  /\ valKey = None
  /\ valResult = [returned |-> None, sent |-> FALSE, response |-> NoResponse]
  /\ validationCache = NoCache
  /\ isValid = None
  /\ isValidating = TRUE
  /\ route = "/"
  /\ hookRuns = << >>
  /\ savePc = "idle"
  /\ saveKey = None

InitUi ==
  /\ InitValidation
  /\ selectedChatMode = "ask"
  /\ HIDE_BUILD_MODE = FALSE
  /\ modeEvents = << >>
  /\ request = None
  /\ validation = << >>

\* the settings and the calls before any call, for the hide flags dm and the
\* build flag
InitCore(dm, build) ==
  /\ distributionMode = dm
  /\ IS_DISTRIBUTION_BUILD = build
  /\ vibeathonApiKey = IF dm.defined THEN "k1" ELSE None
  /\ usedKey = [r \in Tasks |-> None]
  /\ rendered = [k \in FeatureKeys |-> None]
  /\ modeResult = None
  /\ fetchPc = "idle"
  /\ fetchSnapshot = None
  /\ \E en \in BOOLEAN, fk \in FallbackKeyChoices :
        /\ dm.defined \/ (~en /\ ~fk.defined)
        /\ settings = [enabled |-> en, useFallback |-> FALSE, retryCount |-> 0,
                       lastFailure |-> NoTime, fallbackApiKeys |-> fk]
  /\ now = 0
  /\ failedRequests = << >>
  /\ nCalls = 0
  /\ pc = [r \in Tasks |-> "idle"]
  /\ model = [r \in Tasks |-> None]
  /\ attempt = [r \in Tasks |-> 0]
  /\ lastError = [r \in Tasks |-> None]
  /\ failures = [r \in Tasks |-> 0]
  /\ errorsSeen = [r \in Tasks |-> {}]
  /\ delays = [r \in Tasks |-> << >>]
  /\ proxyCalls = [r \in Tasks |-> 0]
  /\ result = [r \in Tasks |-> NoResult]
  /\ logged = [r \in Tasks |-> "no"]
  /\ cancelled = [r \in Tasks |-> FALSE]
  /\ prompt = [r \in Tasks |-> "hello"]
  /\ syncPc = "idle"
  /\ syncQueue = << >>
  /\ response = None
  /\ backendRows = << >>
  /\ posted = << >>

\* the state before any call, for the hide flags dm and the build flag
InitWith(dm, build) == InitCore(dm, build) /\ InitUi

\* a distribution build after initializeDistributionSettings
Init == InitWith(InitialDistributionMode, TRUE)

\* -------------------------------------------------------------- actions
\* getModelClient(model, settings) up to its first await
Start(r, p) ==
  /\ pc[r] = "idle"
  /\ nCalls < MaxCalls
  /\ nCalls' = nCalls + 1
  /\ model' = [model EXCEPT ![r] = p]
  /\ IF ProxyRoute(settings)
     THEN /\ proxyCalls' = [proxyCalls EXCEPT ![r] = 1]
          /\ result' = result
          /\ IF FailedRecently(settings, now)
             THEN /\ pc' = [pc EXCEPT ![r] = "probe"]
                  /\ attempt' = attempt
             ELSE /\ pc' = [pc EXCEPT ![r] = "attempt"]
                  /\ attempt' = [attempt EXCEPT ![r] = 1]
     ELSE /\ pc' = [pc EXCEPT ![r] = "done"]
          /\ UNCHANGED <<attempt, proxyCalls>>
          /\ result' = [result EXCEPT ![r] =
                IF FallbackRoute(settings)
                THEN createFallbackClient(p, settings)
                ELSE Client("standard", TRUE)]
  /\ UNCHANGED <<settings, now, failedRequests, lastError, failures, errorsSeen,
                 delays, logged, cancelled>>
  /\ UNCHANGED syncVars
  /\ UNCHANGED <<vibeathonApiKey, distributionMode, gateVars, fetchVars>>
  /\ UNCHANGED uiVars
  /\ usedKey' = [usedKey EXCEPT ![r] = vibeathonApiKey]

AttemptSettles_NoWait(r, out) ==
  /\ pc[r] = "attempt"
  /\ IF out = "ok"
     THEN /\ pc' = [pc EXCEPT ![r] = "done"]
          /\ result' = [result EXCEPT ![r] = Client("proxy", TRUE)]
          /\ UNCHANGED <<settings, lastError, failures, errorsSeen, delays, attempt,
                         proxyCalls>>
     ELSE /\ lastError' = [lastError EXCEPT ![r] = out]
          /\ failures' = [failures EXCEPT ![r] = @ + 1]
          /\ errorsSeen' = [errorsSeen EXCEPT ![r] = @ \cup {out}]
          /\ settings' = updateRetryCount(settings, attempt[r])
          /\ result' = result
          /\ IF attempt[r] < MAX_RETRIES
             THEN /\ delays' = [delays EXCEPT ![r] = Append(@, RetryDelay(attempt[r]))]
                  /\ attempt' = [attempt EXCEPT ![r] = @ + 1]
                  /\ proxyCalls' = [proxyCalls EXCEPT ![r] = @ + 1]
                  /\ pc' = pc
             ELSE /\ delays' = delays
                  /\ UNCHANGED <<attempt, proxyCalls>>
                  /\ pc' = [pc EXCEPT ![r] = "log"]
  /\ UNCHANGED <<now, failedRequests, nCalls, model, logged, cancelled>>
  /\ UNCHANGED syncVars
  /\ UNCHANGED distVars
  /\ UNCHANGED uiVars

AttemptSettles_Rethrows(r, out) ==
  /\ pc[r] = "attempt"
  /\ IF out = "ok"
     THEN /\ pc' = [pc EXCEPT ![r] = "done"]
          /\ result' = [result EXCEPT ![r] = Client("proxy", TRUE)]
          /\ UNCHANGED <<settings, lastError, failures, errorsSeen, delays>>
     ELSE /\ lastError' = [lastError EXCEPT ![r] = out]
          /\ failures' = [failures EXCEPT ![r] = @ + 1]
          /\ errorsSeen' = [errorsSeen EXCEPT ![r] = @ \cup {out}]
          /\ settings' = updateRetryCount(settings, attempt[r])
          /\ IF attempt[r] < MAX_RETRIES
             THEN /\ delays' = [delays EXCEPT ![r] = Append(@, RetryDelay(attempt[r]))]
                  /\ pc' = [pc EXCEPT ![r] = "sleep"]
                  /\ result' = result
             ELSE /\ delays' = delays
                  /\ pc' = [pc EXCEPT ![r] = "done"]
                  /\ result' = [result EXCEPT ![r] = Failure(out)]
  /\ UNCHANGED <<now, failedRequests, nCalls, model, attempt, proxyCalls, logged,
                 cancelled>>
  /\ UNCHANGED syncVars
  /\ UNCHANGED distVars
  /\ UNCHANGED uiVars

AttemptSettles_CountsSuccess(r, out) ==
  /\ pc[r] = "attempt"
  /\ settings' = updateRetryCount(settings, attempt[r])
  /\ IF out = "ok"
     THEN /\ pc' = [pc EXCEPT ![r] = "done"]
          /\ result' = [result EXCEPT ![r] = Client("proxy", TRUE)]
          /\ UNCHANGED <<lastError, failures, errorsSeen, delays>>
     ELSE /\ lastError' = [lastError EXCEPT ![r] = out]
          /\ failures' = [failures EXCEPT ![r] = @ + 1]
          /\ errorsSeen' = [errorsSeen EXCEPT ![r] = @ \cup {out}]
          /\ result' = result
          /\ IF attempt[r] < MAX_RETRIES
             THEN /\ delays' = [delays EXCEPT ![r] = Append(@, RetryDelay(attempt[r]))]
                  /\ pc' = [pc EXCEPT ![r] = "sleep"]
             ELSE /\ delays' = delays
                  /\ pc' = [pc EXCEPT ![r] = "log"]
  /\ UNCHANGED <<now, failedRequests, nCalls, model, attempt, proxyCalls, logged,
                 cancelled>>
  /\ UNCHANGED syncVars
  /\ UNCHANGED distVars
  /\ UNCHANGED uiVars

\* executeWithRetry: the awaited operation() of the current attempt settles
AttemptSettles(r, out) ==
  /\ pc[r] = "attempt"
  /\ IF out = "ok"
     THEN /\ pc' = [pc EXCEPT ![r] = "done"]
          /\ result' = [result EXCEPT ![r] = Client("proxy", TRUE)]
          /\ UNCHANGED <<settings, lastError, failures, errorsSeen, delays>>
     ELSE /\ lastError' = [lastError EXCEPT ![r] = out]
          /\ failures' = [failures EXCEPT ![r] = @ + 1]
          /\ errorsSeen' = [errorsSeen EXCEPT ![r] = @ \cup {out}]
          /\ settings' = updateRetryCount(settings, attempt[r])
          /\ result' = result
          /\ IF attempt[r] < MAX_RETRIES
             THEN /\ delays' = [delays EXCEPT ![r] = Append(@, RetryDelay(attempt[r]))]
                  /\ pc' = [pc EXCEPT ![r] = "sleep"]
             ELSE /\ delays' = delays
                  /\ pc' = [pc EXCEPT ![r] = "log"]
  /\ UNCHANGED <<now, failedRequests, nCalls, model, attempt, proxyCalls, logged,
                 cancelled>>
  /\ UNCHANGED syncVars
  /\ UNCHANGED distVars
  /\ UNCHANGED uiVars

\* executeWithRetry: the sleep's timer fires and the loop starts the next attempt
SleepEnds(r) ==
  /\ pc[r] = "sleep"
  /\ attempt' = [attempt EXCEPT ![r] = @ + 1]
  /\ proxyCalls' = [proxyCalls EXCEPT ![r] = @ + 1]
  /\ pc' = [pc EXCEPT ![r] = "attempt"]
  /\ UNCHANGED <<settings, now, failedRequests, nCalls, model, lastError, failures,
                 errorsSeen, delays, result, logged, cancelled>>
  /\ UNCHANGED syncVars
  /\ UNCHANGED distVars
  /\ UNCHANGED uiVars

logFailedRequest_StoresContent(r, dbOk) ==
  /\ pc[r] = "log"
  /\ IF dbOk
     THEN /\ failedRequests' = Append(failedRequests,
                 [FailedRequestRow(Len(failedRequests) + 1, model[r], lastError[r])
                    EXCEPT !.error = prompt[r]])
          /\ logged' = [logged EXCEPT ![r] = "row"]
     ELSE /\ failedRequests' = failedRequests
          /\ logged' = [logged EXCEPT ![r] = "dberror"]
  /\ pc' = [pc EXCEPT ![r] = "mark"]
  /\ UNCHANGED <<settings, now, nCalls, model, attempt, lastError, failures,
                 errorsSeen, delays, proxyCalls, result, cancelled>>
  /\ UNCHANGED syncVars
  /\ UNCHANGED distVars
  /\ UNCHANGED uiVars

\* RequestLogger.logFailedRequest: the insert completes, or throws and is
\* caught and logged
logFailedRequest(r, dbOk) ==
  /\ pc[r] = "log"
  /\ IF dbOk
     THEN /\ failedRequests' = Append(failedRequests,
                 FailedRequestRow(Len(failedRequests) + 1, model[r], lastError[r]))
          /\ logged' = [logged EXCEPT ![r] = "row"]
     ELSE /\ failedRequests' = failedRequests
          /\ logged' = [logged EXCEPT ![r] = "dberror"]
  /\ pc' = [pc EXCEPT ![r] = "mark"]
  /\ UNCHANGED <<settings, now, nCalls, model, attempt, lastError, failures,
                 errorsSeen, delays, proxyCalls, result, cancelled>>
  /\ UNCHANGED syncVars
  /\ UNCHANGED distVars
  /\ UNCHANGED uiVars

MarkAndThrow_ReturnsErrorAsClient(r) ==
  /\ pc[r] = "mark"
  /\ settings' = markProxyFailed(settings, now)
  /\ result' = [result EXCEPT ![r] = [kind |-> "client", name |-> "ProxyFailureRequiresUserAction",
                                       keyed |-> FALSE]]
  /\ pc' = [pc EXCEPT ![r] = "done"]
  /\ UNCHANGED <<now, failedRequests, nCalls, model, attempt, lastError, failures,
                 errorsSeen, delays, proxyCalls, logged, cancelled>>
  /\ UNCHANGED syncVars
  /\ UNCHANGED distVars
  /\ UNCHANGED uiVars

MarkAndThrow_ChecksFallback(r) ==
  /\ pc[r] = "mark"
  /\ settings' = markProxyFailed(settings, now)
  /\ result' = [result EXCEPT ![r] =
        IF model[r] \in settings.fallbackApiKeys.keys
        THEN Failure("ProxyFailureRequiresUserAction")
        ELSE Failure("ProxyExhaustedNoFallback")]
  /\ pc' = [pc EXCEPT ![r] = "done"]
  /\ UNCHANGED <<now, failedRequests, nCalls, model, attempt, lastError, failures,
                 errorsSeen, delays, proxyCalls, logged, cancelled>>
  /\ UNCHANGED syncVars
  /\ UNCHANGED distVars
  /\ UNCHANGED uiVars

\* the catch block of getModelClient after the log: markProxyFailed, then
\* throw new ProxyFailureRequiresUserAction
MarkAndThrow(r) ==
  /\ pc[r] = "mark"
  /\ settings' = markProxyFailed(settings, now)
  /\ result' = [result EXCEPT ![r] = Failure("ProxyFailureRequiresUserAction")]
  /\ pc' = [pc EXCEPT ![r] = "done"]
  /\ UNCHANGED <<now, failedRequests, nCalls, model, attempt, lastError, failures,
                 errorsSeen, delays, proxyCalls, logged, cancelled>>
  /\ UNCHANGED syncVars
  /\ UNCHANGED distVars
  /\ UNCHANGED uiVars

ProbeSettles_Retries(r, out) ==
  /\ pc[r] = "probe"
  /\ IF out = "ok"
     THEN /\ settings' = clearProxyFailure(settings)
          /\ result' = [result EXCEPT ![r] = Client("proxy", TRUE)]
          /\ pc' = [pc EXCEPT ![r] = "done"]
          /\ UNCHANGED <<attempt, proxyCalls>>
     ELSE /\ settings' = settings
          /\ result' = result
          /\ pc' = [pc EXCEPT ![r] = "attempt"]
          /\ attempt' = [attempt EXCEPT ![r] = 1]
          /\ proxyCalls' = [proxyCalls EXCEPT ![r] = @ + 1]
  /\ UNCHANGED <<now, failedRequests, nCalls, model, lastError, failures,
                 errorsSeen, delays, logged, cancelled>>
  /\ UNCHANGED syncVars
  /\ UNCHANGED distVars
  /\ UNCHANGED uiVars

\* the silent test of the proxy settles: clearProxyFailure and the proxy
\* client, or createFallbackClient
ProbeSettles(r, out) ==
  /\ pc[r] = "probe"
  /\ IF out = "ok"
     THEN /\ settings' = clearProxyFailure(settings)
          /\ result' = [result EXCEPT ![r] = Client("proxy", TRUE)]
     ELSE /\ settings' = settings
          /\ result' = [result EXCEPT ![r] = createFallbackClient(model[r], settings)]
  /\ pc' = [pc EXCEPT ![r] = "done"]
  /\ UNCHANGED <<now, failedRequests, nCalls, model, attempt, lastError, failures,
                 errorsSeen, delays, proxyCalls, logged, cancelled>>
  /\ UNCHANGED syncVars
  /\ UNCHANGED distVars
  /\ UNCHANGED uiVars

\* the caller takes the result; the task is free for its next call
Return(r) ==
  /\ pc[r] = "done"
  /\ pc' = [pc EXCEPT ![r] = "idle"]
  /\ model' = [model EXCEPT ![r] = None]
  /\ attempt' = [attempt EXCEPT ![r] = 0]
  /\ lastError' = [lastError EXCEPT ![r] = None]
  /\ failures' = [failures EXCEPT ![r] = 0]
  /\ errorsSeen' = [errorsSeen EXCEPT ![r] = {}]
  /\ delays' = [delays EXCEPT ![r] = << >>]
  /\ proxyCalls' = [proxyCalls EXCEPT ![r] = 0]
  /\ result' = [result EXCEPT ![r] = NoResult]
  /\ logged' = [logged EXCEPT ![r] = "no"]
  /\ cancelled' = [cancelled EXCEPT ![r] = FALSE]
  /\ UNCHANGED <<settings, now, failedRequests, nCalls>>
  /\ UNCHANGED syncVars
  /\ UNCHANGED <<vibeathonApiKey, distributionMode, gateVars, fetchVars>>
  /\ UNCHANGED uiVars
  /\ usedKey' = [usedKey EXCEPT ![r] = None]

\* the settings:toggleFallbackMode handler
ToggleFallbackMode(b) ==
  /\ settings' = toggleFallbackMode(settings, b)
  /\ UNCHANGED <<now, failedRequests, nCalls, pc, model, attempt, lastError,
                 failures, errorsSeen, delays, proxyCalls, result, logged, cancelled>>
  /\ UNCHANGED syncVars
  /\ UNCHANGED <<vibeathonApiKey, usedKey, gateVars, fetchVars>>
  /\ UNCHANGED uiVars
  /\ distributionMode' = [distributionMode EXCEPT !.defined = TRUE]

\* a minute passes
Tick ==
  /\ now < MaxTime
  /\ now' = now + 1
  /\ UNCHANGED <<settings, failedRequests, nCalls, pc, model, attempt, lastError,
                 failures, errorsSeen, delays, proxyCalls, result, logged, cancelled>>
  /\ UNCHANGED syncVars
  /\ UNCHANGED distVars
  /\ UNCHANGED uiVars

\* the caller cancels its call while an attempt or a backoff sleep is pending;
\* executeWithRetry and sleep take no abort signal, so nothing else changes
Cancel(r) ==
  /\ pc[r] \in {"attempt", "sleep"}
  /\ ~cancelled[r]
  /\ cancelled' = [cancelled EXCEPT ![r] = TRUE]
  /\ UNCHANGED <<settings, now, failedRequests, nCalls, pc, model, attempt, lastError,
                 failures, errorsSeen, delays, proxyCalls, result, logged>>
  /\ UNCHANGED syncVars
  /\ UNCHANGED distVars
  /\ UNCHANGED uiVars

\* the user rewrites the message of chat r before the next request
Compose(r, c) ==
  /\ pc[r] = "idle"
  /\ c # prompt[r]
  /\ prompt' = [prompt EXCEPT ![r] = c]
  /\ UNCHANGED <<settings, now, failedRequests, nCalls, pc, model, attempt, lastError,
                 failures, errorsSeen, delays, proxyCalls, result, logged, cancelled,
                 syncPc, syncQueue, response, backendRows, posted>>
  /\ UNCHANGED distVars
  /\ UNCHANGED uiVars

\* SyncService.syncFailedRequests up to its loop: nothing to do when no row
\* is unsynced
SyncStart ==
  /\ syncPc = "idle"
  /\ getUnsyncedRequests(failedRequests) # << >>
  /\ syncQueue' = getUnsyncedRequests(failedRequests)
  /\ syncPc' = "push"
  /\ UNCHANGED <<settings, now, failedRequests, nCalls, pc, model, attempt, lastError,
                 failures, errorsSeen, delays, proxyCalls, result, logged, cancelled,
                 prompt, response, backendRows, posted>>
  /\ UNCHANGED distVars
  /\ UNCHANGED uiVars

PushSettles_BreaksLoop(out) ==
  /\ syncPc = "push"
  /\ LET answer == store(SyncPayload(Head(syncQueue)), backendRows)
     IN /\ backendRows' = IF out \in {"lostReply", "answered"} THEN answer.rows
                          ELSE backendRows
        /\ IF out \in {"unreachable", "lostReply"}
           THEN /\ response' = None
                /\ syncQueue' = << >>
                /\ syncPc' = "idle"
           ELSE /\ response' = IF out = "answered" THEN answer.status ELSE "500"
                /\ syncQueue' = syncQueue
                /\ syncPc' = "mark"
  /\ UNCHANGED <<settings, now, failedRequests, nCalls, pc, model, attempt, lastError,
                 failures, errorsSeen, delays, proxyCalls, result, logged, cancelled,
                 prompt, posted>>
  /\ UNCHANGED distVars
  /\ UNCHANGED uiVars

\* the loop body's await fetchVibeathonApi settles: a rejected fetch is caught
\* and the loop goes on with the next row; a resolved one, whatever its
\* status, goes on to markRequestSynced
PushSettles(out) ==
  /\ syncPc = "push"
  /\ LET answer == store(SyncPayload(Head(syncQueue)), backendRows)
     IN /\ backendRows' = IF out \in {"lostReply", "answered"} THEN answer.rows
                          ELSE backendRows
        /\ IF out \in {"unreachable", "lostReply"}
           THEN /\ response' = None
                /\ syncQueue' = Tail(syncQueue)
                /\ syncPc' = IF Tail(syncQueue) = << >> THEN "idle" ELSE "push"
           ELSE /\ response' = IF out = "answered" THEN answer.status ELSE "500"
                /\ syncQueue' = syncQueue
                /\ syncPc' = "mark"
  /\ UNCHANGED <<settings, now, failedRequests, nCalls, pc, model, attempt, lastError,
                 failures, errorsSeen, delays, proxyCalls, result, logged, cancelled,
                 prompt, posted>>
  /\ UNCHANGED distVars
  /\ UNCHANGED uiVars

\* the loop body's await markRequestSynced settles: the update is done, or
\* throws and is caught; the loop goes on with the next row
MarkSynced(dbOk) ==
  /\ syncPc = "mark"
  /\ failedRequests' = IF dbOk THEN markRequestSynced(failedRequests, Head(syncQueue).id)
                       ELSE failedRequests
  /\ response' = None
  /\ syncQueue' = Tail(syncQueue)
  /\ syncPc' = IF Tail(syncQueue) = << >> THEN "idle" ELSE "push"
  /\ UNCHANGED <<settings, now, nCalls, pc, model, attempt, lastError,
                 failures, errorsSeen, delays, proxyCalls, result, logged, cancelled,
                 prompt, backendRows, posted>>
  /\ UNCHANGED distVars
  /\ UNCHANGED uiVars

\* the backend handles one POST /sync/failed-request
Post(payload) ==
  /\ Len(posted) < MaxPosts
  /\ LET answer == store(payload, backendRows)
     IN /\ backendRows' = answer.rows
        /\ posted' = Append(posted, [body |-> payload, status |-> answer.status])
  /\ UNCHANGED <<settings, now, failedRequests, nCalls, pc, model, attempt, lastError,
                 failures, errorsSeen, delays, proxyCalls, result, logged, cancelled,
                 prompt, syncPc, syncQueue, response>>
  /\ UNCHANGED distVars
  /\ UNCHANGED uiVars

\* handleSaveApiKey of the Vibeathon settings panel: the user stores key k
handleSaveApiKey(k) ==
  /\ vibeathonApiKey' = k
  /\ distributionMode' = withFlagDefaults(distributionMode)
  /\ UNCHANGED <<settings, now, failedRequests, nCalls, pc, model, attempt, lastError,
                 failures, errorsSeen, delays, proxyCalls, result, logged, cancelled>>
  /\ UNCHANGED <<syncVars, usedKey, gateVars, fetchVars>>
  /\ UNCHANGED uiVars

\* handleDeleteApiKey of the Vibeathon settings panel: the key and the
\* fallback keys are removed
handleDeleteApiKey ==
  /\ vibeathonApiKey' = None
  /\ distributionMode' = withFlagDefaults(distributionMode)
  /\ settings' = [settings EXCEPT !.fallbackApiKeys = [defined |-> FALSE, keys |-> {}]]
  /\ UNCHANGED <<now, failedRequests, nCalls, pc, model, attempt, lastError,
                 failures, errorsSeen, delays, proxyCalls, result, logged, cancelled>>
  /\ UNCHANGED <<syncVars, usedKey, gateVars, fetchVars>>
  /\ UNCHANGED uiVars

\* a render pass of the components: shouldHideFeature is evaluated for the
\* feature keys and nothing is written
Render ==
  /\ rendered' = [k \in FeatureKeys |-> shouldHideFeature(distributionMode, settings, k)]
  /\ UNCHANGED <<settings, now, failedRequests, nCalls, pc, model, attempt, lastError,
                 failures, errorsSeen, delays, proxyCalls, result, logged, cancelled>>
  /\ UNCHANGED <<syncVars, vibeathonApiKey, usedKey, distributionMode,
                 IS_DISTRIBUTION_BUILD, modeResult, fetchVars>>
  /\ UNCHANGED uiVars

\* a component asks isDistributionMode(settings)
CheckDistributionMode ==
  /\ modeResult' = isDistributionMode(IS_DISTRIBUTION_BUILD, distributionMode)
  /\ UNCHANGED <<settings, now, failedRequests, nCalls, pc, model, attempt, lastError,
                 failures, errorsSeen, delays, proxyCalls, result, logged, cancelled>>
  /\ UNCHANGED <<syncVars, vibeathonApiKey, usedKey, distributionMode,
                 IS_DISTRIBUTION_BUILD, rendered, fetchVars>>
  /\ UNCHANGED uiVars

\* fetchVibeathonFallbackKeys up to its await: the settings are read, and
\* without a Vibeathon key the function throws
FetchKeysStart ==
  /\ fetchPc = "idle"
  /\ vibeathonApiKey # None
  /\ fetchPc' = "await"
  /\ fetchSnapshot' = [settings |-> settings, vibeathonApiKey |-> vibeathonApiKey,
                       distributionMode |-> distributionMode]
  /\ UNCHANGED <<settings, now, failedRequests, nCalls, pc, model, attempt, lastError,
                 failures, errorsSeen, delays, proxyCalls, result, logged, cancelled>>
  /\ UNCHANGED <<syncVars, vibeathonApiKey, usedKey, distributionMode, gateVars>>
  /\ UNCHANGED uiVars

\* the await of fetchFallbackApiKeys settles: a rejection leaves the function;
\* otherwise distributionMode is written from the settings read before the
\* await, with the fetched keys in proxySettings.fallbackApiKeys
FetchKeysSettles(out) ==
  /\ fetchPc = "await"
  /\ fetchPc' = "idle"
  /\ fetchSnapshot' = None
  /\ IF out.ok
     THEN /\ settings' = [fetchSnapshot.settings EXCEPT
                            !.fallbackApiKeys = [defined |-> TRUE, keys |-> out.keys]]
          /\ vibeathonApiKey' = fetchSnapshot.vibeathonApiKey
          /\ distributionMode' = withFlagDefaults(fetchSnapshot.distributionMode)
     ELSE UNCHANGED <<settings, vibeathonApiKey, distributionMode>>
  /\ UNCHANGED <<now, failedRequests, nCalls, pc, model, attempt, lastError,
                 failures, errorsSeen, delays, proxyCalls, result, logged, cancelled>>
  /\ UNCHANGED <<syncVars, usedKey, gateVars>>
  /\ UNCHANGED uiVars

\* proxySettings as initializeDistributionSettings writes it
InitialProxySettings ==
  [enabled |-> TRUE, useFallback |-> FALSE, retryCount |-> 0, lastFailure |-> NoTime,
   fallbackApiKeys |-> [defined |-> FALSE, keys |-> {}]]

initializeDistributionSettings_Overwrites ==
  /\ IF IS_DISTRIBUTION_BUILD
     THEN /\ distributionMode' = InitialDistributionMode
          /\ settings' = InitialProxySettings
     ELSE UNCHANGED <<distributionMode, settings>>
  /\ UNCHANGED <<now, failedRequests, nCalls, pc, model, attempt, lastError,
                 failures, errorsSeen, delays, proxyCalls, result, logged, cancelled>>
  /\ UNCHANGED <<syncVars, vibeathonApiKey, usedKey, gateVars, fetchVars>>
  /\ UNCHANGED uiVars

\* initializeDistributionSettings, called at application startup
initializeDistributionSettings ==
  /\ IF IS_DISTRIBUTION_BUILD /\ ~distributionMode.defined
     THEN /\ distributionMode' = InitialDistributionMode
          /\ settings' = InitialProxySettings
     ELSE UNCHANGED <<distributionMode, settings>>
  /\ UNCHANGED <<now, failedRequests, nCalls, pc, model, attempt, lastError,
                 failures, errorsSeen, delays, proxyCalls, result, logged, cancelled>>
  /\ UNCHANGED <<syncVars, vibeathonApiKey, usedKey, gateVars, fetchVars>>
  /\ UNCHANGED uiVars

\* fetchFallbackApiKeys: the data, or an Error thrown
fetchFallbackApiKeys(resp) ==
  IF ~resp.delivered THEN "throws"
  ELSE IF ~resp.ok THEN "throws"
  ELSE IF ~resp.parsable THEN "throws"
  ELSE IF resp.expiration \in {"", "undefined"} THEN "throws"
  ELSE "data"

\* validateVibeathonApiKey: true when fetchFallbackApiKeys returns, false
\* when it throws
validateVibeathonApiKey_IgnoresExpiration(resp) ==
  Js(resp.delivered /\ resp.ok /\ resp.parsable)

validateVibeathonApiKey(resp) == Js(fetchFallbackApiKeys(resp) = "data")

\* the settings:validateVibeathonKey handler up to its await: false for an
\* empty key, otherwise validateVibeathonApiKey sends its request
validateVibeathonKey(k) ==
  /\ valPc = "idle"
  /\ valKey' = k
  /\ IF k = EmptyKey
     THEN /\ valPc' = "idle"
          /\ valResult' = [returned |-> "false", sent |-> FALSE, response |-> NoResponse]
     ELSE /\ valPc' = "fetch"
          /\ valResult' = [returned |-> None, sent |-> TRUE, response |-> NoResponse]
  /\ UNCHANGED <<settings, now, failedRequests, nCalls, pc, model, attempt, lastError,
                 failures, errorsSeen, delays, proxyCalls, result, logged, cancelled>>
  /\ UNCHANGED <<syncVars, distVars, hookVars, saveVars, modeVars, reqVars>>

\* the request of validateVibeathonApiKey settles and the handler returns
ValidateSettles(resp) ==
  /\ valPc = "fetch"
  /\ valPc' = "idle"
  /\ valKey' = valKey
  /\ valResult' = [returned |-> validateVibeathonApiKey(resp), sent |-> TRUE,
                   response |-> resp]
  /\ UNCHANGED <<settings, now, failedRequests, nCalls, pc, model, attempt, lastError,
                 failures, errorsSeen, delays, proxyCalls, result, logged, cancelled>>
  /\ UNCHANGED <<syncVars, distVars, hookVars, saveVars, modeVars, reqVars>>

\* a sequence without its i-th element
RemoveAt(seq, i) == SubSeq(seq, 1, i - 1) \o SubSeq(seq, i + 1, Len(seq))

\* isCacheValid of validateKey
isCacheValid_IgnoresAge(cache, key, t) == cache.apiKey = key /\ cache.isValid

isCacheValid(cache, key, t) ==
  cache.apiKey = key /\ cache.isValid /\ t - cache.timestamp < CACHE_DURATION

\* warmValidationCache(apiKey), and the same three assignments in validateKey
warmValidationCache(key, t) == [apiKey |-> key, isValid |-> TRUE, timestamp |-> t]

\* the effect of useVibeathonKeyValidation, run at mount and when the
\* settings change, up to the await of validateKey
validateKey ==
  /\ IF ~IS_DISTRIBUTION_BUILD
     THEN /\ isValidating' = FALSE
          /\ isValid' = "true"
          /\ UNCHANGED <<route, hookRuns>>
     ELSE IF vibeathonApiKey = None
     THEN /\ isValid' = "false"
          /\ isValidating' = FALSE
          /\ route' = "/settings"
          /\ UNCHANGED hookRuns
     ELSE IF isCacheValid(validationCache, vibeathonApiKey, now)
     THEN /\ isValid' = "true"
          /\ isValidating' = FALSE
          /\ UNCHANGED <<route, hookRuns>>
     ELSE /\ Len(hookRuns) < MaxRuns
          /\ hookRuns' = Append(hookRuns, vibeathonApiKey)
          /\ UNCHANGED <<isValid, isValidating, route>>
  /\ UNCHANGED validationCache
  /\ UNCHANGED <<settings, now, failedRequests, nCalls, pc, model, attempt, lastError,
                 failures, errorsSeen, delays, proxyCalls, result, logged, cancelled>>
  /\ UNCHANGED <<syncVars, distVars, valVars, saveVars, modeVars, reqVars>>

ValidateKeySettles_KeepsCache(i, out) ==
  /\ i \in 1..Len(hookRuns)
  /\ hookRuns' = RemoveAt(hookRuns, i)
  /\ isValidating' = FALSE
  /\ IF out = "true"
     THEN /\ isValid' = "true"
          /\ validationCache' = warmValidationCache(hookRuns[i], now)
          /\ route' = route
     ELSE /\ isValid' = "false"
          /\ validationCache' = validationCache
          /\ route' = "/settings"
  /\ UNCHANGED <<settings, now, failedRequests, nCalls, pc, model, attempt, lastError,
                 failures, errorsSeen, delays, proxyCalls, result, logged, cancelled>>
  /\ UNCHANGED <<syncVars, distVars, valVars, saveVars, modeVars, reqVars>>

\* the await of the i-th pending validateKey run settles: the state and the
\* cache are set from its result, whatever has run since it started
ValidateKeySettles(i, out) ==
  /\ i \in 1..Len(hookRuns)
  /\ hookRuns' = RemoveAt(hookRuns, i)
  /\ isValidating' = FALSE
  /\ IF out = "true"
     THEN /\ isValid' = "true"
          /\ validationCache' = warmValidationCache(hookRuns[i], now)
          /\ route' = route
     ELSE /\ isValid' = "false"
          /\ validationCache' = NoCache
          /\ route' = "/settings"
  /\ UNCHANGED <<settings, now, failedRequests, nCalls, pc, model, attempt, lastError,
                 failures, errorsSeen, delays, proxyCalls, result, logged, cancelled>>
  /\ UNCHANGED <<syncVars, distVars, valVars, saveVars, modeVars, reqVars>>

\* the user follows the "Go to Apps" link of the settings page
GoToApps ==
  /\ route = "/settings"
  /\ route' = "/"
  /\ UNCHANGED <<validationCache, isValid, isValidating, hookRuns>>
  /\ UNCHANGED <<settings, now, failedRequests, nCalls, pc, model, attempt, lastError,
                 failures, errorsSeen, delays, proxyCalls, result, logged, cancelled>>
  /\ UNCHANGED <<syncVars, distVars, valVars, saveVars, modeVars, reqVars>>

\* handleSave of the settings page up to await validateVibeathonKey(apiKey)
handleSave(k) ==
  /\ savePc = "idle"
  /\ savePc' = "validate"
  /\ saveKey' = k
  /\ UNCHANGED <<settings, now, failedRequests, nCalls, pc, model, attempt, lastError,
                 failures, errorsSeen, delays, proxyCalls, result, logged, cancelled>>
  /\ UNCHANGED <<syncVars, distVars, valVars, hookVars, modeVars, reqVars>>

HandleSaveValidated_WarmsAlways(out) ==
  /\ savePc = "validate"
  /\ saveKey = EmptyKey => out # "true"
  /\ validationCache' = warmValidationCache(saveKey, now)
  /\ savePc' = IF out = "true" THEN "write" ELSE "idle"
  /\ UNCHANGED <<saveKey, isValid, isValidating, route, hookRuns>>
  /\ UNCHANGED <<settings, now, failedRequests, nCalls, pc, model, attempt, lastError,
                 failures, errorsSeen, delays, proxyCalls, result, logged, cancelled>>
  /\ UNCHANGED <<syncVars, distVars, valVars, modeVars, reqVars>>

\* the validation of handleSave settles: when it is true the cache is warmed
\* and updateSettings is awaited; the handler answers false for an empty key
HandleSaveValidated(out) ==
  /\ savePc = "validate"
  /\ saveKey = EmptyKey => out # "true"
  /\ IF out = "true"
     THEN /\ validationCache' = warmValidationCache(saveKey, now)
          /\ savePc' = "write"
     ELSE /\ validationCache' = validationCache
          /\ savePc' = "idle"
  /\ UNCHANGED <<saveKey, isValid, isValidating, route, hookRuns>>
  /\ UNCHANGED <<settings, now, failedRequests, nCalls, pc, model, attempt, lastError,
                 failures, errorsSeen, delays, proxyCalls, result, logged, cancelled>>
  /\ UNCHANGED <<syncVars, distVars, valVars, modeVars, reqVars>>

\* the updateSettings of handleSave settles: the key is stored, or the write
\* throws and is caught
HandleSaveWrites(ok) ==
  /\ savePc = "write"
  /\ savePc' = "idle"
  /\ vibeathonApiKey' = IF ok THEN saveKey ELSE vibeathonApiKey
  /\ UNCHANGED <<settings, now, failedRequests, nCalls, pc, model, attempt, lastError,
                 failures, errorsSeen, delays, proxyCalls, result, logged, cancelled>>
  /\ UNCHANGED <<syncVars, usedKey, distributionMode, gateVars, fetchVars>>
  /\ UNCHANGED <<saveKey, valVars, hookVars, modeVars, reqVars>>

\* one getModelClient call, from its start to its result
Call(r) ==
  \/ \E p \in Providers : Start(r, p)
  \/ \E out \in ProxyOutcomes : AttemptSettles(r, out)
  \/ SleepEnds(r)
  \/ \E dbOk \in BOOLEAN : logFailedRequest(r, dbOk)
  \/ MarkAndThrow(r)
  \/ \E out \in ProxyOutcomes : ProbeSettles(r, out)

\* one chat stream calling getModelClient again and again, the user toggling
\* fallback mode, time passing
Next ==
  \/ Call("chat1")
  \/ Return("chat1")
  \/ \E b \in BOOLEAN : ToggleFallbackMode(b)
  \/ Tick

Spec == Init /\ [][Next]_vars

\* two chat streams calling getModelClient at the same time
NextConc ==
  \E r \in Tasks : Call(r)

SpecConc == Init /\ [][NextConc]_vars

\* one chat stream whose caller may cancel a pending call
NextCancel ==
  \/ Call("chat1")
  \/ Return("chat1")
  \/ Cancel("chat1")

SpecCancel == Init /\ [][NextCancel]_vars

\* one chat stream whose failed requests are logged, and the sync service
\* pushing the unsynced rows to the backend
NextSync ==
  \/ Call("chat1")
  \/ Return("chat1")
  \/ \E c \in Contents : Compose("chat1", c)
  \/ SyncStart
  \/ \E out \in PushOutcomes : PushSettles(out)
  \/ \E dbOk \in BOOLEAN : MarkSynced(dbOk)

SpecSync == Init /\ [][NextSync]_vars

\* the same, with sync cycles that keep being run and whose awaits settle
SpecSyncLive ==
  /\ Init /\ [][NextSync]_vars
  /\ WF_vars(SyncStart)
  /\ WF_vars(\E out \in PushOutcomes : PushSettles(out))
  /\ WF_vars(\E dbOk \in BOOLEAN : MarkSynced(dbOk))

\* the backend's sync endpoint, taking requests from its clients
NextBackend ==
  \E payload \in PostedBodies : Post(payload)

SpecBackend == Init /\ [][NextBackend]_vars

\* one chat stream, and the user storing another Vibeathon key meanwhile
NextRotate ==
  \/ Call("chat1")
  \/ Return("chat1")
  \/ \E k \in ApiKeys : handleSaveApiKey(k)

SpecRotate == Init /\ [][NextRotate]_vars

\* one chat stream and the user toggling fallback mode, under several
\* configurations of the hide flags, while the components render
InitGate == \E dm \in GateConfigs : InitWith(dm, FALSE)

NextGate ==
  \/ Call("chat1")
  \/ Return("chat1")
  \/ \E b \in BOOLEAN : ToggleFallbackMode(b)
  \/ Render

SpecGate == InitGate /\ [][NextGate]_vars

\* shouldHideFeature and isDistributionMode applied to every value of the
\* hide flags, in either build
InitTable == \E dm \in DistributionModes, build \in BOOLEAN : InitWith(dm, build)

NextTable ==
  \/ Render
  \/ CheckDistributionMode

SpecTable == InitTable /\ [][NextTable]_vars

\* the fallback keys being fetched while the user toggles fallback mode and
\* saves or deletes the Vibeathon key
NextFetch ==
  \/ \E b \in BOOLEAN : ToggleFallbackMode(b)
  \/ \E k \in ApiKeys : handleSaveApiKey(k)
  \/ handleDeleteApiKey
  \/ FetchKeysStart
  \/ \E out \in FetchOutcomes : FetchKeysSettles(out)

SpecFetch == Init /\ [][NextFetch]_vars

\* application startups in either build over any stored hide flags, and the
\* user toggling fallback mode
InitStartup == \E dm \in DistributionModes, build \in BOOLEAN : InitWith(dm, build)

NextStartup ==
  \/ initializeDistributionSettings
  \/ \E b \in BOOLEAN : ToggleFallbackMode(b)

SpecStartup == InitStartup /\ [][NextStartup]_vars

\* ---------------------------------------------------- validateOpenAIRequest
\* the values of a request field: typeof, the number in tenths, the string
Undefined == [type |-> "undefined", tenths |-> 0, text |-> ""]
Null      == [type |-> "object", tenths |-> 0, text |-> ""]
NaN       == [type |-> "number", tenths |-> 0, text |-> "NaN"]
Num(n)    == [type |-> "number", tenths |-> n, text |-> ""]
Str(t)    == [type |-> "string", tenths |-> 0, text |-> t]

\* the value is truthy: not undefined, null, 0, NaN or ""
IsTruthy(v) ==
  CASE v.type = "number" -> v # NaN /\ v.tenths # 0
    [] v.type = "string" -> v.text # ""
    [] OTHER -> FALSE

\* v < n and v > n for a value whose typeof is number; NaN compares false
Below(v, n) == v # NaN /\ v.tenths < 10 * n
Above(v, n) == v # NaN /\ v.tenths > 10 * n

\* request.max_tokens: -1, 0, 0.5, 1, 100 beside the values that are no number
MaxTokensValues ==
  {Undefined, Null, NaN, Num(-10), Num(0), Num(5), Num(10), Num(1000), Str(""), Str("100")}

\* request.temperature: -1, 0, 0.7, 2, 2.5 beside the values that are no number
TemperatureValues ==
  {Undefined, NaN, Num(-10), Num(0), Num(7), Num(20), Num(25), Str("hot")}

\* one message: a role validateOpenAIRequest accepts, one it does not, none;
\* a content or the empty string
Messages == [role : {"user", "tool", "undefined"}, content : {"hi", ""}]

\* request.messages: undefined, a value that is no array, or an array
NoArray == "notarray"
MessageLists == UNION {[1..n -> Messages] : n \in 0..MaxMessages}

\* the requests validateOpenAIRequest is given
Requests ==
  {[model |-> m, isArray |-> FALSE, messages |-> << >>, noMessages |-> nm,
    max_tokens |-> mt, temperature |-> t] :
      m \in {"gpt-4", "", "undefined"}, nm \in {"undefined", NoArray},
      mt \in MaxTokensValues, t \in TemperatureValues}
  \cup
  {[model |-> m, isArray |-> TRUE, messages |-> ms, noMessages |-> "",
    max_tokens |-> mt, temperature |-> t] :
      m \in {"gpt-4", "", "undefined"}, ms \in MessageLists,
      mt \in MaxTokensValues, t \in TemperatureValues}

\* an entry of errors: the text, and the index the text ends with
NoIndex == -1
Error(text, index) == [text |-> text, index |-> index]

\* the forEach over request.messages, from the message at index (from 0)
RECURSIVE messageErrors(_, _)
messageErrors(messages, index) ==
  IF index >= Len(messages) THEN << >>
  ELSE LET message == messages[index + 1]
           roleError ==
             IF message.role \in {"undefined", ""}
                  \/ message.role \notin {"system", "user", "assistant"}
             THEN <<Error("Invalid message role at index", index)>> ELSE << >>
           contentError ==
             IF message.content \in {"undefined", ""}
             THEN <<Error("Missing content for message at index", index)>> ELSE << >>
       IN roleError \o contentError \o messageErrors(messages, index + 1)

\* the max_tokens check of validateOpenAIRequest
maxTokensErrors(v) ==
  IF IsTruthy(v) /\ (v.type # "number" \/ Below(v, 1))
  THEN <<Error("max_tokens must be a positive number", NoIndex)>> ELSE << >>

\* the temperature check of validateOpenAIRequest
temperatureErrors(v) ==
  IF IsTruthy(v) /\ (v.type # "number" \/ Below(v, 0) \/ Above(v, 2))
  THEN <<Error("temperature must be a number between 0 and 2", NoIndex)>> ELSE << >>

validateOpenAIRequest(req) ==
  LET errors ==
        (IF req.model \in {"undefined", ""}
         THEN <<Error("Missing required field: model", NoIndex)>> ELSE << >>)
        \o (IF ~req.isArray
            THEN <<Error("Missing or invalid messages array", NoIndex)>>
            ELSE messageErrors(req.messages, 0))
        \o maxTokensErrors(req.max_tokens)
        \o temperatureErrors(req.temperature)
  IN [valid |-> Len(errors) = 0, errors |-> errors]

\* a caller validates the request it holds
ValidateRequest ==
  /\ validation = << >>
  /\ validation' = <<validateOpenAIRequest(request)>>
  /\ UNCHANGED request
  /\ UNCHANGED <<settings, now, failedRequests, nCalls, pc, model, attempt, lastError,
                 failures, errorsSeen, delays, proxyCalls, result, logged, cancelled>>
  /\ UNCHANGED <<syncVars, distVars, valVars, hookVars, saveVars, modeVars>>

\* every request of Requests, not yet validated
InitRequest ==
  /\ InitCore(InitialDistributionMode, TRUE)
  /\ settings = InitialProxySettings
  /\ InitValidation
  /\ selectedChatMode = "ask"
  /\ HIDE_BUILD_MODE = FALSE
  /\ modeEvents = << >>
  /\ request \in Requests
  /\ validation = << >>

NextRequest == ValidateRequest

SpecRequest == InitRequest /\ [][NextRequest]_vars

\* ChatModeSchema.options, in the order of the enum
ChatModes == <<"build", "ask", "agent">>

\* the useSettings hook has no settings object yet
NoSettings == "nosettings"

\* what settings?.selectedChatMode can be
ChatModeValues == {ChatModes[i] : i \in 1..Len(ChatModes)} \cup {"undefined", NoSettings}

\* modes.indexOf(mode), counted from 1
indexOf(modes, mode) == CHOOSE i \in 1..Len(modes) : modes[i] = mode

\* shouldHideBuildMode of toggleChatMode and of ChatModeSelector
shouldHideBuildMode == IS_DISTRIBUTION_BUILD \/ HIDE_BUILD_MODE

newMode_CyclesWhenHidden(currentMode) ==
  ChatModes[(indexOf(ChatModes, currentMode) % Len(ChatModes)) + 1]

\* newMode of toggleChatMode for the current mode
newMode(currentMode) ==
  IF shouldHideBuildMode
  THEN IF currentMode = "ask" THEN "agent" ELSE "ask"
  ELSE ChatModes[(indexOf(ChatModes, currentMode) % Len(ChatModes)) + 1]

\* toggleChatMode of useChatModeToggle, the handler of the keyboard shortcut
toggleChatMode ==
  /\ Len(modeEvents) < MaxToggles
  /\ IF selectedChatMode \in {NoSettings, "undefined"}
     THEN UNCHANGED <<selectedChatMode, modeEvents>>
     ELSE /\ selectedChatMode' = newMode(selectedChatMode)
          /\ modeEvents' = Append(modeEvents, [from |-> selectedChatMode,
                                               to |-> newMode(selectedChatMode)])
  /\ UNCHANGED HIDE_BUILD_MODE
  /\ UNCHANGED <<settings, now, failedRequests, nCalls, pc, model, attempt, lastError,
                 failures, errorsSeen, delays, proxyCalls, result, logged, cancelled>>
  /\ UNCHANGED <<syncVars, distVars, valVars, hookVars, saveVars, reqVars>>

\* the items ChatModeSelector offers: the Ask/Agent toggle group when Build
\* mode is hidden, the dropdown of three otherwise
SelectorItems == IF shouldHideBuildMode THEN {"ask", "agent"} ELSE {"build", "ask", "agent"}

\* handleModeChange of ChatModeSelector: the user picks an item
handleModeChange(value) ==
  /\ value \in SelectorItems
  /\ selectedChatMode' = value
  /\ UNCHANGED <<HIDE_BUILD_MODE, modeEvents>>
  /\ UNCHANGED <<settings, now, failedRequests, nCalls, pc, model, attempt, lastError,
                 failures, errorsSeen, delays, proxyCalls, result, logged, cancelled>>
  /\ UNCHANGED <<syncVars, distVars, valVars, hookVars, saveVars, reqVars>>

\* either build, with or without DYAD_HIDE_BUILD_MODE, over every stored
\* selectedChatMode
InitMode ==
  /\ \E build \in BOOLEAN : InitCore(InitialDistributionMode, build)
  /\ settings = InitialProxySettings
  /\ InitValidation
  /\ selectedChatMode \in ChatModeValues
  /\ HIDE_BUILD_MODE \in BOOLEAN
  /\ modeEvents = << >>
  /\ request = None
  /\ validation = << >>

NextMode ==
  \/ toggleChatMode
  \/ \E value \in {"build", "ask", "agent"} : handleModeChange(value)

SpecMode == InitMode /\ [][NextMode]_vars

\* the settings:validateVibeathonKey handler called again and again
NextValidate ==
  \/ \E k \in HandlerKeys : validateVibeathonKey(k)
  \/ \E resp \in KeysResponses : ValidateSettles(resp)

SpecValidate == Init /\ [][NextValidate]_vars

\* the key validation hook, the settings page saving and the panel deleting
\* the key, time passing, in either build
InitHook ==
  /\ \E build \in BOOLEAN : InitWith(InitialDistributionMode, build)
  /\ settings = InitialProxySettings

NextHook ==
  \/ validateKey
  \/ \E i \in 1..MaxRuns, out \in IpcOutcomes : ValidateKeySettles(i, out)
  \/ GoToApps
  \/ \E k \in HandlerKeys : handleSave(k)
  \/ \E out \in IpcOutcomes : HandleSaveValidated(out)
  \/ \E ok \in BOOLEAN : HandleSaveWrites(ok)
  \/ handleDeleteApiKey
  \/ Tick

SpecHook == InitHook /\ [][NextHook]_vars

\* ======================================================================
\* Properties
\* ======================================================================
\* the call of task r has used up executeWithRetry's attempts
Exhausted(r) == failures[r] = MAX_RETRIES

\* a step in which task r enters getModelClient
StartStep(r) == pc[r] = "idle" /\ pc'[r] # "idle"

\* the fallback credential of the call's provider is stored
HasFallbackKey(r) == model[r] \in settings.fallbackApiKeys.keys

\* the cooldown since lastFailure has elapsed
CooldownElapsed == settings.lastFailure # NoTime /\ now - settings.lastFailure >= FIVE_MINUTES

C1_ExhaustedStep ==
  \A r \in Tasks :
    /\ (pc'[r] = "done" /\ Exhausted(r)')
          => /\ result'[r] = Failure("ProxyFailureRequiresUserAction")
             /\ logged'[r] \in {"row", "dberror"}
    /\ (pc[r] = "log" /\ pc'[r] = "mark")
          => /\ logged[r] = "no"
             /\ failedRequests' \in
                  {failedRequests,
                   Append(failedRequests,
                          FailedRequestRow(Len(failedRequests) + 1, model[r], lastError[r]))}
             /\ (logged'[r] = "row") <=> (Len(failedRequests') = Len(failedRequests) + 1)
    /\ (pc[r] # "log" /\ pc'[r] # pc[r]) => failedRequests' = failedRequests
    /\ (pc[r] = "mark" /\ pc'[r] = "done")
          => /\ settings'.useFallback = settings.useFallback
             /\ settings'.lastFailure = now
             /\ settings'.retryCount = 0

C2_NoCredentialStep ==
  \A r \in Tasks :
    /\ (pc'[r] = "done" /\ Exhausted(r)' /\ ~HasFallbackKey(r)')
          => result'[r] = Failure("ProxyFailureRequiresUserAction")
    /\ (pc[r] \in {"log", "mark"} /\ pc'[r] # pc[r])
          => settings'.useFallback = settings.useFallback
    /\ (StartStep(r) /\ settings.enabled /\ ~settings.useFallback
          /\ settings.lastFailure # NoTime /\ ~CooldownElapsed)
          => pc'[r] = "probe" /\ proxyCalls'[r] = 1

C3_DegradedStartStep ==
  \A r \in Tasks :
    (StartStep(r) /\ settings.useFallback)
      => /\ pc'[r] \notin {"attempt", "probe"}
         /\ (settings.lastFailure # NoTime /\ ~CooldownElapsed)
               => /\ proxyCalls'[r] = 0
                  /\ result'[r].name = "fallback-direct"

C3_DegradedReturnsFallbackClient == [][C3_DegradedStartStep]_vars

C3_UseFallbackStep ==
  \A r \in Tasks :
    (StartStep(r) /\ settings.useFallback)
      => /\ pc'[r] = "done"
         /\ proxyCalls'[r] = 0
         /\ settings' = settings
         /\ result'[r] =
              IF ~settings.fallbackApiKeys.defined THEN Client("standard", TRUE)
              ELSE IF model'[r] = "openai"
                   THEN Client("fallback-direct", "openai" \in settings.fallbackApiKeys.keys)
                   ELSE Failure("FallbackNotSupported")

\* C3 amended: a call made while useFallback is true makes no proxy call at
\* all, whether or not the cooldown has elapsed; it returns a fallback-direct
\* client when fallbackApiKeys is stored and createFallbackClient has a case
\* for the provider, the standard client when no fallbackApiKeys is stored,
\* and fails for a provider without a case.
C3_UseFallbackSkipsProxy == [][C3_UseFallbackStep]_vars

C3_Witness ==
  \E r \in Tasks :
    /\ pc[r] = "done" /\ proxyCalls[r] = 0
    /\ settings.useFallback
    /\ settings.lastFailure # NoTime /\ ~CooldownElapsed
    /\ result[r] = Client("fallback-direct", TRUE)

\* ---------------------------------------------------------------- C4
\* C4 as stated: a call made with enabled and useFallback true and lastFailure
\* older than the cooldown probes the proxy (and, the probe succeeding,
\* returns the proxy client and clears useFallback and the failure count).
C4_DegradedElapsedStep ==
  \A r \in Tasks :
    (StartStep(r) /\ settings.enabled /\ settings.useFallback /\ CooldownElapsed)
      => pc'[r] = "probe"

C4_ProbeStep ==
  \A r \in Tasks :
    /\ StartStep(r)
          => ((pc'[r] = "probe") <=>
                (/\ settings.enabled /\ ~settings.useFallback
                 /\ settings.lastFailure # NoTime /\ ~CooldownElapsed))
    /\ (pc[r] = "probe" /\ pc'[r] = "done" /\ result'[r].kind = "client"
          /\ result'[r].name = "proxy")
          => /\ proxyCalls'[r] = 1
             /\ ~settings'.useFallback
             /\ settings'.retryCount = 0
             /\ settings'.lastFailure = NoTime
             /\ ProxyRoute(settings') /\ ~FailedRecently(settings', now')

C5_DegradedElapsedStep ==
  \A r \in Tasks :
    (StartStep(r) /\ settings.enabled /\ settings.useFallback /\ CooldownElapsed)
      => proxyCalls'[r] = 1

C5_ProbeFailsStep ==
  \A r \in Tasks :
    (pc[r] = "probe" /\ pc'[r] # "probe")
      => /\ pc'[r] = "done"
         /\ proxyCalls'[r] = 1
         /\ attempt'[r] = 0 /\ delays'[r] = << >>
         /\ failedRequests' = failedRequests
         /\ result'[r] # Client("proxy", TRUE)
              => /\ settings' = settings
                 /\ result'[r] =
                      IF model[r] = "openai"
                      THEN Client("fallback-direct", "openai" \in settings.fallbackApiKeys.keys)
                      ELSE Failure("FallbackNotSupported")

C6_AuthFailureAbortsAtOnce ==
  \A r \in Tasks :
    (failures[r] >= 1 /\ attempt[r] = 1 /\ lastError[r] = "auth")
      => /\ pc[r] = "done"
         /\ result[r] = Failure("AuthenticationError")
         /\ delays[r] = << >>
         /\ logged[r] = "no"

\* ---------------------------------------------------------------- C7
\* C7: while fewer than the maximum number of attempts have failed, one wait
\* has followed each failure, the waits never decrease, the wait after
\* attempt k is at least base * 2^(k-1), and no FailedRequestRecord has been
\* written by the call.
C7_BackoffBelowMaximum ==
  \A r \in Tasks :
    failures[r] < MAX_RETRIES
      => /\ logged[r] = "no"
         /\ pc[r] \notin {"log", "mark"}
         /\ Len(delays[r]) = failures[r]
         /\ \A k \in 1..Len(delays[r]) :
               /\ delays[r][k] >= BASE_DELAY * Pow2(k - 1)
               /\ k > 1 => delays[r][k] >= delays[r][k - 1]

C7_Witness ==
  \E r \in Tasks :
    /\ pc[r] = "done" /\ failures[r] = MAX_RETRIES - 1
    /\ result[r] = Client("proxy", TRUE)
    /\ Len(delays[r]) = MAX_RETRIES - 1

C9_CancelledStep ==
  \A r \in Tasks :
    (cancelled[r] /\ cancelled'[r])
      => /\ proxyCalls'[r] = proxyCalls[r]
         /\ logged'[r] = logged[r]
         /\ failedRequests' = failedRequests

C9_CancelStopsRetries == [][C9_CancelledStep]_vars

\* --------------------------------------------------------------- C10
\* C10: when two concurrent calls have both used up their attempts, the
\* failure counter of the settings is 2 higher than before (it starts at 0).
C10_TwoExhaustedCallsCountTwo ==
  (\A r \in Tasks : pc[r] = "done" /\ Exhausted(r)) => settings.retryCount = 2

\* --------------------------------------------------------------- C11
\* C11 as stated: the step that ends an exhausted retry sequence sets
\* useFallback, sets lastFailure to the time of exhaustion and raises the
\* failure counter by exactly 1.
C11_ExhaustionStepAllThree ==
  \A r \in Tasks :
    (pc[r] = "mark" /\ pc'[r] = "done")
      => /\ settings'.useFallback
         /\ settings'.lastFailure = now
         /\ settings'.retryCount = settings.retryCount + 1

C11_MarkStep ==
  \A r \in Tasks :
    /\ (pc[r] = "mark" /\ pc'[r] = "done")
          => /\ Exhausted(r)
             /\ settings' = [settings EXCEPT !.lastFailure = now, !.retryCount = 0]
    /\ (pc[r] \in {"attempt", "sleep", "log"} /\ pc'[r] # pc[r])
          => /\ settings'.lastFailure = settings.lastFailure
             /\ settings'.useFallback = settings.useFallback
    /\ (pc[r] = "attempt" /\ pc'[r] \in {"sleep", "log"})
          => settings'.retryCount = attempt[r]

C12_DisabledStartStep ==
  \A r \in Tasks :
    (StartStep(r) /\ ~settings.enabled)
      => /\ pc'[r] = "done"
         /\ result'[r] = Client("standard", TRUE)
         /\ settings' = settings
         /\ failedRequests' = failedRequests

C12_DisabledReturnsStandard == [][C12_DisabledStartStep]_vars

\* --------------------------------------------------------------- C13
C13_HappyPathStep ==
  \A r \in Tasks :
    /\ (StartStep(r) /\ settings.enabled /\ ~settings.useFallback)
          => /\ pc'[r] \in {"attempt", "probe"}
             /\ proxyCalls'[r] = 1
             /\ settings' = settings
             /\ failedRequests' = failedRequests
    /\ (pc[r] = "attempt" /\ attempt[r] = 1 /\ pc'[r] = "done")
          => /\ result'[r] = Client("proxy", TRUE)
             /\ settings' = settings
    /\ (pc[r] \in {"attempt", "probe"} /\ proxyCalls[r] = 1 /\ pc'[r] = "done"
          /\ result'[r] = Client("proxy", TRUE))
          => /\ proxyCalls'[r] = 1
             /\ failures'[r] = 0
             /\ delays'[r] = << >>
             /\ logged'[r] = "no"
             /\ failedRequests' = failedRequests
             /\ ~settings.useFallback => ~settings'.useFallback

\* C13: a call that starts with enabled true and useFallback false makes its
\* first proxy call at once; when that call succeeds the proxy client is
\* returned after exactly one proxy call, with no failed attempt, no wait and
\* no FailedRequestRecord, and useFallback is left false.
C13_HappyPath == [][C13_HappyPathStep]_vars

C13_Witness ==
  \E r \in Tasks :
    /\ pc[r] = "done" /\ result[r] = Client("proxy", TRUE)
    /\ attempt[r] = 1 /\ proxyCalls[r] = 1 /\ failures[r] = 0
    /\ settings.enabled /\ ~settings.useFallback
    /\ settings.lastFailure = NoTime
    /\ failedRequests = << >>

\* --------------------------------------------------------------- C14
\* C14: the failure counter is 0 right after every successful proxy response
\* and right after every fallback-mode toggle, in either direction.
C14_ResetStep ==
  /\ \A r \in Tasks :
        (pc[r] \in {"attempt", "probe"} /\ pc'[r] = "done"
           /\ result'[r] = Client("proxy", TRUE))
          => settings'.retryCount = 0
  /\ (settings'.useFallback # settings.useFallback /\ pc' = pc)
          => settings'.retryCount = 0

C14_CounterZeroAfterSuccessOrToggle == [][C14_ResetStep]_vars

\* --------------------------------------------------------------- C15
\* C15: a row's synced flag becomes true only in a step of the sync service
\* that holds a success response of the backend for that row's push; a push
\* answered with an error, or not answered, leaves the row unsynced.
C15_MarkedStep ==
  \A i \in 1..Len(failedRequests) :
    (~failedRequests[i].synced /\ failedRequests'[i].synced)
      => /\ syncPc = "mark"
         /\ Head(syncQueue).id = failedRequests[i].id
         /\ response = "200"

C15_SyncedOnlyAfterAcknowledgment == [][C15_MarkedStep]_vars

\* --------------------------------------------------------------- C16
\* C16: when the same body, accepted once, is posted again, the second post
\* is accepted too and the backend holds exactly one row with its request_id.
C16_SamePushTwiceAccepted ==
  \A i, j \in 1..Len(posted) :
    (i < j /\ posted[i].body = posted[j].body /\ posted[i].status = "200")
      => /\ posted[j].status = "200"
         /\ Cardinality({k \in 1..Len(backendRows) :
                backendRows[k].request_id = posted[i].body.request_id}) = 1

\* --------------------------------------------------------------- C17
C17_LoopStep ==
  /\ (syncPc = "idle" /\ syncPc' # "idle")
        => /\ syncQueue' = getUnsyncedRequests(failedRequests)
           /\ syncPc' = "push"
  /\ (syncPc = "push" /\ syncPc' # "mark" /\ syncQueue' # syncQueue)
        => /\ response' = None
           /\ failedRequests' = failedRequests
           /\ syncQueue' = Tail(syncQueue)
           /\ syncPc' = IF Tail(syncQueue) = << >> THEN "idle" ELSE "push"
  /\ (syncPc = "push" /\ syncPc' = "mark")
        => /\ response' # None
           /\ syncQueue' = syncQueue
  /\ (syncPc = "mark" /\ syncPc' # "mark")
        => /\ failedRequests' \in
                {failedRequests, markRequestSynced(failedRequests, Head(syncQueue).id)}
           /\ syncQueue' = Tail(syncQueue)
           /\ syncPc' = IF Tail(syncQueue) = << >> THEN "idle" ELSE "push"

\* C17: a sync cycle takes every unsynced row in turn: when the push of one
\* row fails the loop goes on with the next row, and each row whose push is
\* answered goes on to markRequestSynced, whatever happened to the rows
\* before it.
C17_FailedPushDoesNotBlock == [][C17_LoopStep]_vars

C17_Witness ==
  /\ Len(failedRequests) >= 2
  /\ ~failedRequests[1].synced
  /\ failedRequests[2].synced
  /\ syncPc = "idle"

\* --------------------------------------------------------------- C18
\* C18: while sync cycles keep being run, a row whose push was answered with
\* an error stays unsynced and is pushed again in a later cycle (until it is
\* acknowledged and marked synced).
C18_FailedPushRetried ==
  \A id \in 1..MaxCalls :
    (syncPc = "mark" /\ response # "200" /\ Head(syncQueue).id = id)
      ~> (syncPc = "push" /\ Head(syncQueue).id = id)

\* --------------------------------------------------------------- C19
C19_LedgerStep ==
  /\ Len(failedRequests') \in {Len(failedRequests), Len(failedRequests) + 1}
  /\ Len(failedRequests') = Len(failedRequests) + 1
        => /\ ~failedRequests'[Len(failedRequests')].synced
           /\ \E r \in Tasks : pc[r] = "log" /\ pc'[r] = "mark"
  /\ \A i \in 1..Len(failedRequests) :
        \/ failedRequests'[i] = failedRequests[i]
        \/ /\ ~failedRequests[i].synced
           /\ failedRequests'[i] = [failedRequests[i] EXCEPT !.synced = TRUE]
           /\ syncPc = "mark" /\ syncPc' # "mark"
           /\ pc' = pc

\* C19: the ledger only grows, by one unsynced row at a time written by the
\* call that ran out of attempts; no row is ever removed; a row's synced
\* flag changes only from false to true and only in a step of the sync
\* service; no other field of a row changes after its insert.
C19_LedgerAppendOnly == [][C19_LedgerStep]_vars

C19_Witness ==
  /\ Len(failedRequests) = 2
  /\ failedRequests[1].synced
  /\ ~failedRequests[2].synced
  /\ syncPc = "idle"

\* --------------------------------------------------------------- C20
\* the fields and values a ledger row can hold: metadata only
MetadataOnly(row) ==
  /\ DOMAIN row = {"id", "provider", "messageCount", "error", "retryCount", "synced"}
  /\ row.provider \in Providers
  /\ row.error \in ProxyOutcomes
  /\ row.provider \notin Contents /\ row.error \notin Contents
  /\ DOMAIN SyncPayload(row) = {"requestId", "requestData", "error"}
  /\ DOMAIN SyncPayload(row).requestData = {"provider", "messageCount"}
  /\ SyncPayload(row).requestData.provider = row.provider
  /\ SyncPayload(row).error = row.error

C20_ContentStep ==
  /\ \A i \in 1..Len(failedRequests') : MetadataOnly(failedRequests'[i])
  /\ \A i \in 1..Len(syncQueue') : MetadataOnly(syncQueue'[i])
  /\ prompt' # prompt
        => /\ failedRequests' = failedRequests
           /\ syncQueue' = syncQueue
           /\ backendRows' = backendRows
  /\ \A r \in Tasks :
        (pc[r] = "log" /\ pc'[r] = "mark" /\ logged'[r] = "row")
          => failedRequests'[Len(failedRequests')] =
               [id |-> Len(failedRequests) + 1, provider |-> model[r],
                messageCount |-> MessageCount, error |-> lastError[r],
                retryCount |-> 0, synced |-> FALSE]

SpecErrors == {"ConfigurationError", "AuthenticationError", "ProxyExhaustedNoFallback"}

Transports == {"proxy", "fallback-direct", "standard"}

C22_OutcomeStep ==
  \A r \in Tasks :
    /\ result'[r] # result[r]
          => \/ /\ result[r] = NoResult /\ pc[r] # "done" /\ pc'[r] = "done"
                /\ \/ result'[r].kind = "client" /\ result'[r].name \in Transports
                   \/ result'[r].kind = "error"  /\ result'[r].name \notin Transports
             \/ pc[r] = "done" /\ pc'[r] = "idle" /\ result'[r] = NoResult
    /\ (pc[r] # "done" /\ pc'[r] = "done")
          => /\ result'[r] # NoResult
             /\ result'[r] = Client("proxy", TRUE)
                   => /\ pc[r] \in {"attempt", "probe"}
                      /\ failures'[r] = proxyCalls'[r] - 1
             /\ (result'[r].kind = "client" /\ result'[r].name # "proxy")
                   => \/ pc[r] = "idle" /\ proxyCalls'[r] = 0
                      \/ pc[r] = "probe" /\ proxyCalls'[r] = 1

\* C22: a call gets its result once, in the step that completes it, and keeps
\* it until the caller takes it: either one client bound to one of the three
\* transports or one error, never both and never neither. The proxy client is
\* returned only by the proxy call that succeeded; a direct (fallback or
\* standard) client only by a call in which no proxy call succeeded.
C22_OneTransportOrError == [][C22_OutcomeStep]_vars

C22_Witness ==
  \E r \in Tasks :
    /\ pc[r] = "done" /\ result[r] = Client("proxy", TRUE)
    /\ failures[r] = 2 /\ proxyCalls[r] = 3
    /\ nCalls = 2 /\ Len(failedRequests) = 0

\* --------------------------------------------------------------- C23
\* proxy calls of task r that have been started and have not settled
InFlight(r) == IF pc[r] \in {"attempt", "probe"} THEN 1 ELSE 0

C23_SequentialStep ==
  \A r \in Tasks :
    /\ proxyCalls'[r] = proxyCalls[r] + 1
          => \/ pc[r] = "idle" /\ proxyCalls[r] = 0
             \/ /\ pc[r] = "sleep" /\ pc'[r] = "attempt"
                /\ attempt'[r] = attempt[r] + 1
                /\ failures[r] = attempt[r]
                /\ Len(delays[r]) = attempt[r]
                /\ delays[r][attempt[r]] = RetryDelay(attempt[r])
    /\ proxyCalls'[r] \in {proxyCalls[r], proxyCalls[r] + 1, 0}
    /\ (pc[r] = "attempt" /\ pc'[r] = "sleep")
          => /\ failures'[r] = attempt[r]
             /\ proxyCalls'[r] = proxyCalls[r]
    /\ proxyCalls'[r] = failures'[r] + InFlight(r)'
          + (IF result'[r] = Client("proxy", TRUE) THEN 1 ELSE 0)
          + (IF pc'[r] = "done" /\ attempt'[r] = 0 /\ proxyCalls'[r] = 1
                /\ result'[r] # Client("proxy", TRUE) THEN 1 ELSE 0)

\* C23: within one call the proxy attempts are strictly sequential: attempt
\* N+1 is started only by the step that ends the backoff sleep of attempt N,
\* after the failure of attempt N was counted and its delay
\* BASE_DELAY * 2^(N-1) was slept, so every started attempt but at most one
\* has settled.
C23_AttemptsSequential == [][C23_SequentialStep]_vars

C23_Witness ==
  \E r \in Tasks :
    /\ pc[r] = "attempt" /\ attempt[r] = 4
    /\ failures[r] = 3 /\ proxyCalls[r] = 4
    /\ delays[r] = <<1000, 2000, 4000>>

\* --------------------------------------------------------------- C24
C24_NextAttemptStep ==
  \A r \in Tasks :
    (pc[r] = "sleep" /\ pc'[r] = "attempt") => usedKey'[r] = vibeathonApiKey'

\* C24: every attempt that follows a backoff sleep is made with the Vibeathon
\* key the settings file holds when the attempt starts.
C24_CredentialReadPerAttempt == [][C24_NextAttemptStep]_vars

\* --------------------------------------------------------------- C25
\* C25: no call returns a client that was built without its credential.
C25_NoClientWithoutCredential ==
  \A r \in Tasks :
    (pc[r] = "done" /\ result[r].kind = "client") => result[r].keyed

\* --------------------------------------------------------------- C26
C26_HealthyStep ==
  \A r \in Tasks :
    /\ (StartStep(r) /\ settings.enabled /\ ~settings.useFallback)
          => /\ pc'[r] \in {"attempt", "probe"}
             /\ proxyCalls'[r] = 1
             /\ result'[r] = NoResult
    /\ (pc[r] = "attempt" /\ pc'[r] = "done")
          => result'[r] = Client("proxy", TRUE)
    /\ (pc[r] = "probe" /\ pc'[r] = "done")
          => \/ result'[r] = Client("proxy", TRUE)
             \/ /\ result'[r] = createFallbackClient(model[r], settings)
                /\ settings.lastFailure # NoTime
                /\ settings' = settings
    /\ (pc'[r] = "done" /\ pc[r] # "done" /\ result'[r].kind = "error")
          => \/ pc[r] = "mark" /\ Exhausted(r)
             \/ pc[r] = "probe" /\ settings.lastFailure # NoTime
             \/ pc[r] = "idle" /\ settings.useFallback

C27_GateStep ==
  /\ \A k \in FeatureKeys :
        /\ Truthy(shouldHideFeature(distributionMode', settings', k))
             = Truthy(shouldHideFeature(distributionMode, settings, k))
        /\ rendered[k] # None => Truthy(rendered'[k]) = Truthy(rendered[k])
  /\ rendered' # rendered
        => /\ UNCHANGED <<settings, now, failedRequests, nCalls, pc, model, attempt,
                          lastError, failures, errorsSeen, delays, proxyCalls, result,
                          logged, cancelled>>
           /\ UNCHANGED <<syncVars, vibeathonApiKey, usedKey, distributionMode,
                          IS_DISTRIBUTION_BUILD, modeResult, fetchVars>>
           /\ UNCHANGED uiVars

\* C27: no step of a call, of the retry bookkeeping or of the fallback toggle
\* changes whether shouldHideFeature hides a feature key, a later render
\* hides exactly the keys an earlier one hid, and a render changes nothing
\* but what is rendered.
C27_GateIgnoresRetryState == [][C27_GateStep]_vars

C27_Witness ==
  /\ distributionMode.hideCommercialFeatures = "undefined"
  /\ settings.enabled /\ settings.useFallback /\ settings.lastFailure # NoTime
  /\ rendered["model-picker"] = "true"
  /\ rendered["hub-nav"] = "true"
  /\ rendered["pro-buttons"] = "false"
  /\ rendered = [k \in FeatureKeys |-> shouldHideFeature(distributionMode, settings, k)]

\* --------------------------------------------------------------- C28
\* C28: what shouldHideFeature returns is false when distributionMode is
\* undefined and false for a key it has no case for; otherwise pro-banner is
\* hidden iff hideCommercialFeatures or hideProButtons is true, pro-buttons
\* iff hideProButtons, hub-nav iff hideNavigation holds 'hub', library-nav
\* iff it holds 'library', import-app iff hideExternalIntegrations,
\* more-ideas iff hideCommercialFeatures.
C28_GateTable ==
  rendered["pro-banner"] # None =>
    LET dm == distributionMode
    IN /\ ~dm.defined => \A k \in FeatureKeys : rendered[k] = "false"
       /\ rendered["other-key"] = "false"
       /\ dm.defined =>
            /\ Truthy(rendered["pro-banner"])
                 = (dm.hideCommercialFeatures = "true" \/ dm.hideProButtons = "true")
            /\ Truthy(rendered["pro-buttons"]) = (dm.hideProButtons = "true")
            /\ Truthy(rendered["hub-nav"]) = ("hub" \in dm.hideNavigation.items)
            /\ Truthy(rendered["library-nav"]) = ("library" \in dm.hideNavigation.items)
            /\ Truthy(rendered["import-app"]) = (dm.hideExternalIntegrations = "true")
            /\ Truthy(rendered["more-ideas"]) = (dm.hideCommercialFeatures = "true")

C28_Witness ==
  /\ distributionMode.hideCommercialFeatures = "false"
  /\ distributionMode.hideProButtons = "true"
  /\ distributionMode.hideExternalIntegrations = "undefined"
  /\ distributionMode.hideNavigation = [defined |-> TRUE, items |-> {"library"}]
  /\ rendered["pro-banner"] = "true"
  /\ rendered["more-ideas"] = "false"
  /\ rendered["hub-nav"] = "false"
  /\ rendered["library-nav"] = "true"
  /\ rendered["import-app"] = "undefined"

\* --------------------------------------------------------------- C29
\* C29 as stated: isDistributionMode returns true when hideCommercialFeatures
\* is true, and false when distributionMode is undefined or
\* hideCommercialFeatures is false.
C29_FlagDecidesMode ==
  modeResult # None =>
    /\ distributionMode.hideCommercialFeatures = "true" => modeResult = "true"
    /\ (~distributionMode.defined \/ distributionMode.hideCommercialFeatures = "false")
         => modeResult = "false"

\* C29 amended: isDistributionMode returns true when the build is a
\* distribution build or hideCommercialFeatures is true, and false otherwise.
C29_BuildOrFlagDecidesMode ==
  modeResult # None =>
    modeResult = Js(IS_DISTRIBUTION_BUILD \/ distributionMode.hideCommercialFeatures = "true")

C29_Witness ==
  /\ IS_DISTRIBUTION_BUILD
  /\ distributionMode.defined /\ distributionMode.hideCommercialFeatures = "false"
  /\ modeResult = "true"

\* --------------------------------------------------------------- C30
C30_WriteBackStep ==
  (fetchPc = "await" /\ fetchPc' = "idle")
    => /\ settings'.useFallback = settings.useFallback
       /\ vibeathonApiKey' = vibeathonApiKey

\* C30: when fetchVibeathonFallbackKeys leaves its await and writes the
\* fallback keys, useFallback and vibeathonApiKey keep the values the
\* settings file holds at that moment.
C30_FetchKeepsOtherFields == [][C30_WriteBackStep]_vars

\* --------------------------------------------------------------- C31
\* the hide flags of distributionMode
HideFlags(dm) ==
  <<dm.hideCommercialFeatures, dm.hideProButtons, dm.hideExternalIntegrations,
    dm.hideNavigation>>

C31_StartupStep ==
  /\ (~IS_DISTRIBUTION_BUILD \/ distributionMode.defined)
        => /\ HideFlags(distributionMode') = HideFlags(distributionMode)
           /\ settings'.enabled = settings.enabled
           /\ settings'.fallbackApiKeys = settings.fallbackApiKeys
           /\ settings'.lastFailure = settings.lastFailure
           /\ (settings' # settings
                 => settings' = toggleFallbackMode(settings, settings'.useFallback))
  /\ (HideFlags(distributionMode') # HideFlags(distributionMode)
       \/ settings'.enabled # settings.enabled)
        => /\ IS_DISTRIBUTION_BUILD /\ ~distributionMode.defined
           /\ distributionMode' = InitialDistributionMode
           /\ settings' = InitialProxySettings

C32_ValidationNeverThrows ==
  /\ valResult.returned \in {None, "true", "false"}
  /\ valPc = "idle" /\ valKey # None => valResult.returned # None
  /\ valResult.returned = "true"
       <=> /\ valResult.sent
           /\ valResult.response.delivered /\ valResult.response.ok
           /\ valResult.response.parsable
           /\ valResult.response.expiration = "2026-12-31"
  /\ valKey = EmptyKey
       => /\ valPc = "idle"
          /\ valResult = [returned |-> "false", sent |-> FALSE, response |-> NoResponse]
  /\ valResult.sent => valKey \in ApiKeys

C32_Witness ==
  /\ valPc = "idle" /\ valKey = "k1"
  /\ valResult.returned = "false" /\ valResult.sent
  /\ valResult.response =
       [delivered |-> TRUE, ok |-> TRUE, parsable |-> TRUE, expiration |-> "undefined"]

\* --------------------------------------------------------------- C33
\* a pending validateKey run settles in this step
RunSettles == Len(hookRuns') < Len(hookRuns)

\* the validation of handleSave comes back true in this step
SaveValidates == savePc = "validate" /\ savePc' = "write"

CacheSound(cache) ==
  IF cache.isValid THEN cache.apiKey \in ApiKeys ELSE cache = NoCache

C33_CacheStep ==
  /\ CacheSound(validationCache) /\ CacheSound(validationCache')
  /\ (validationCache' # validationCache /\ validationCache'.isValid)
        => /\ validationCache'.timestamp = now
           /\ \/ /\ RunSettles /\ isValid' = "true"
                 /\ \E i \in 1..Len(hookRuns) :
                       /\ hookRuns' = RemoveAt(hookRuns, i)
                       /\ validationCache'.apiKey = hookRuns[i]
              \/ SaveValidates /\ validationCache'.apiKey = saveKey
  /\ (RunSettles /\ isValid' = "false") => validationCache' = NoCache
  /\ RunSettles => isValid' \in {"true", "false"} /\ validationCache'.isValid = (isValid' = "true")

EffectSkips ==
  /\ hookRuns' = hookRuns
  /\ <<isValid, isValidating>>' # <<isValid, isValidating>>

C34_SkipStep ==
  (EffectSkips /\ isValid' = "true")
    => isCacheValid(validationCache, vibeathonApiKey, now)

\* C34 as stated: the hook reports valid without the IPC call only when the
\* cache holds isValid = true for the current key in an entry younger than
\* five minutes.
C34_SkipsOnlyOnCacheHit == [][C34_SkipStep]_vars

C34_EffectStep ==
  /\ (EffectSkips /\ isValid' = "true")
        => \/ ~IS_DISTRIBUTION_BUILD
           \/ /\ validationCache.apiKey = vibeathonApiKey
              /\ validationCache.isValid
              /\ now - validationCache.timestamp < CACHE_DURATION
  /\ (EffectSkips /\ isValid' = "false")
        => /\ IS_DISTRIBUTION_BUILD /\ vibeathonApiKey = None
           /\ route' = "/settings"
  /\ Len(hookRuns') > Len(hookRuns)
        => /\ hookRuns' = Append(hookRuns, vibeathonApiKey)
           /\ IS_DISTRIBUTION_BUILD /\ vibeathonApiKey \in ApiKeys
           /\ \/ validationCache.apiKey # vibeathonApiKey
              \/ ~validationCache.isValid
              \/ now - validationCache.timestamp >= CACHE_DURATION
           /\ UNCHANGED <<isValid, isValidating, route, validationCache>>

\* C34 amended: in a distribution build the hook reports valid without the
\* IPC call only on such a cache entry, and makes the call for a key the
\* cache does not hold as valid and young; without a key it reports invalid
\* and redirects to /settings; in any other build it reports valid without
\* any call.
C34_SkipsOnCacheHitInDistributionBuild == [][C34_EffectStep]_vars

C34_Witness ==
  /\ IS_DISTRIBUTION_BUILD
  /\ validationCache = warmValidationCache("k1", 0)
  /\ vibeathonApiKey = "k1"
  /\ now = CACHE_DURATION
  /\ hookRuns = <<"k1">>

\* --------------------------------------------------------------- C35
C35_LateResultStep ==
  \A i \in 1..Len(hookRuns) :
    ( /\ hookRuns' = RemoveAt(hookRuns, i)
      /\ hookRuns[i] # vibeathonApiKey
      /\ \A j \in 1..Len(hookRuns) : hookRuns[j] # vibeathonApiKey
      /\ isValid = "true"
      /\ isCacheValid(validationCache, vibeathonApiKey, now) )
      => isValid' = isValid /\ validationCache' = validationCache

\* C35: once isValid and the cache hold the result for the key the settings
\* hold now and no run for that key is pending, the result of a run started
\* for an earlier key changes neither of them.
C35_LateResultIgnored == [][C35_LateResultStep]_vars

\* --------------------------------------------------------------- C36
C36_SaveStep ==
  /\ (vibeathonApiKey' # vibeathonApiKey /\ vibeathonApiKey' # None)
        => savePc = "write" /\ vibeathonApiKey' = saveKey /\ saveKey \in ApiKeys
  /\ (savePc = "validate" /\ savePc' = "idle")
        => /\ UNCHANGED <<settings, vibeathonApiKey, distributionMode>>
           /\ validationCache' = validationCache
  /\ SaveValidates
        => /\ validationCache' = warmValidationCache(saveKey, now)
           /\ UNCHANGED <<settings, vibeathonApiKey, distributionMode>>
  /\ savePc' = "write" => savePc \in {"validate", "write"}

\* C36: handleSave stores the key only in the step that follows a validation
\* that came back true; a validation that comes back false or throws changes
\* neither the stored settings nor the cache.
C36_SavesOnlyValidatedKey == [][C36_SaveStep]_vars

C36_Witness ==
  /\ savePc = "idle" /\ saveKey = "k2"
  /\ vibeathonApiKey = "k2"
  /\ validationCache = warmValidationCache("k2", 1)
  /\ now = 1

\* --------------------------------------------------------------- C37
\* the user stores a key in this step
SavesKey == \E k \in ApiKeys : handleSaveApiKey(k)

C37_DeletedStep ==
  (vibeathonApiKey = None /\ ~SavesKey)
    => vibeathonApiKey' = None /\ ~settings'.fallbackApiKeys.defined

\* C37: once the Vibeathon key is deleted, every step other than the user
\* saving a key leaves the key absent and no fallback keys stored, a fetch
\* that was in flight at the delete included.
C37_DeletedKeyStaysDeleted == [][C37_DeletedStep]_vars

\* --------------------------------------------------------------- C38
\* selectedChatMode is one of the three modes
HasMode == selectedChatMode \in {"build", "ask", "agent"}

\* a step of toggleChatMode that wrote a mode
Toggles == modeEvents' # modeEvents

C38_ToggleStep ==
  /\ Toggles =>
       /\ HasMode
       /\ modeEvents' = Append(modeEvents, [from |-> selectedChatMode,
                                            to |-> selectedChatMode'])
       /\ (IS_DISTRIBUTION_BUILD \/ HIDE_BUILD_MODE)
             => /\ selectedChatMode' = IF selectedChatMode = "ask" THEN "agent" ELSE "ask"
                /\ selectedChatMode' # "build"
       /\ ~(IS_DISTRIBUTION_BUILD \/ HIDE_BUILD_MODE)
             => /\ selectedChatMode = "build" => selectedChatMode' = "ask"
                /\ selectedChatMode = "ask" => selectedChatMode' = "agent"
                /\ selectedChatMode = "agent" => selectedChatMode' = "build"
  /\ ~HasMode => ~Toggles

Validated == validation # << >>

\* max_tokens is set: neither undefined nor null
MaxTokensSet == request.max_tokens \notin {Undefined, Null}

\* max_tokens is a number above 0
MaxTokensPositive ==
  /\ request.max_tokens.type = "number"
  /\ request.max_tokens # NaN
  /\ request.max_tokens.tenths > 0

\* errors holds the max_tokens message
ReportsMaxTokens ==
  \E i \in 1..Len(validation[1].errors) :
    validation[1].errors[i].text = "max_tokens must be a positive number"

\* C39: valid is true exactly when errors is empty, and a request whose
\* max_tokens is set to 0, a negative number or a value that is no number gets
\* the error 'max_tokens must be a positive number'.
C39_ReportsNonPositiveMaxTokens ==
  Validated =>
    /\ validation[1].valid <=> validation[1].errors = << >>
    /\ (MaxTokensSet /\ ~MaxTokensPositive) => ReportsMaxTokens

====
